---------------------------- MODULE Spec2Model ----------------------------
(***************************************************************************)
(* A model of the ds.h containers: the open-addressing hash map            *)
(* (ds/ds_map.h) and the generational slab allocator (ds_slab.h), both     *)
(* built on the dynamic array (ds/ds_vector.h), the signal                 *)
(* (ds/ds_signal.h), built on the slab, the sorted set (ds/ds_set.h), the  *)
(* shared and weak references (ds/ds_shared.h, ds_weak.h) and the block    *)
(* allocator (ds_arena.h).                                                 *)
(* The model is the debug build: ds_assert is active and a failed          *)
(* assertion aborts the program.  Each container has a specification of    *)
(* its own, in which the variables of the others stay 0.                   *)
(***************************************************************************)
EXTENDS Integers, Sequences, FiniteSets, TLC

VARIABLES map, mop, slab, sop, issued, retired, signal, invoke, sets, setop,
          vec, vop, shared, shop, arena, aop

vars == <<map, mop, slab, sop, issued, retired, signal, invoke, sets, setop,
          vec, vop, shared, shop, arena, aop>>
mapVars == <<map, mop>>
slabVars == <<slab, sop, issued, retired>>
signalVars == <<signal, invoke>>
setVars == <<sets, setop>>
vectorVars == <<vec, vop>>
sharedVars == <<shared, shop>>
arenaVars == <<arena, aop>>

(***************************************************************************)
(* Bounds of the model.                                                    *)
(***************************************************************************)
\* keys are 0..MaxKey
MaxKey == 3
\* the largest bucket capacity the map may reach
MaxCapacity == 4
\* ds_uint is modelled modulo ds_UINT_MOD (the program's is 2^32)
ds_UINT_MOD == 6
\* the largest capacity a slab is created with
MaxSlabCapacity == 2
\* the elements of a sorted set are 0..MaxElem
MaxElem == 2
\* the largest capacity a vector is created with or resized to by its client
MaxVectorCapacity == 4
\* the most elements the client of a vector adds in a run
MaxVectorOps == 4
\* the largest size, in bytes, passed to arena_new and arena_malloc
MaxArenaSize == 40
\* the most references of one kind (shared, weak) the client holds at once;
\* below ds_UINT_MOD, as a program holds fewer than 2^32 references
MaxRefs == 4

Keys == 0..MaxKey
\* the value type V and the slab's payload type T are ds_bool
Values == BOOLEAN

(***************************************************************************)
(* ds_def.h                                                                *)
(***************************************************************************)
ds_VECTOR_EXPANSION == 2
ds_VECTOR_TRUNC_ASSERT == 1
ds_MAP_LOAD_FACTOR_NUM == 1
ds_MAP_LOAD_FACTOR_DEN == 2
ds_BUCKET_EMPTY == 0
ds_BUCKET_OCCUPIED == 1
ds_BUCKET_SKIP == 2
ds_false == 0
ds_true == 1
\* a null pointer; bucket pointers are modelled by the bucket's index
NULL == -1

\* ds_INT_HASH: the key itself is the hash number
key_hasher(key) == key
\* ds_DEFAULT_EQUALS
x_y_equals(x, y) == x = y

(***************************************************************************)
(* Hash map (ds/ds_map.h).  A map is [count, buckets], buckets the vector  *)
(* [count, capacity, array]; array[i] is a bucket [key, value, state].     *)
(* Every operation returns [self, ret, ok]: the map afterwards, the        *)
(* returned value and whether every ds_assert on the way passed.           *)
(***************************************************************************)
\* a zeroed bucket (memset / calloc)
ZeroBucket == [key |-> 0, value |-> FALSE, state |-> ds_BUCKET_EMPTY]

map_new(capacity) ==
    [count |-> 0,
     buckets |-> [count |-> 0, capacity |-> capacity,
                  array |-> [i \in 0..(capacity - 1) |-> ZeroBucket]]]

map_count(self) == self.count
map_capacity(self) == self.buckets.capacity

\* the bucket the i-th probe of a key with hash number hash looks at
probe(hash, i, capacity) == (hash + i) % capacity

\* mutant of map_find_loop: a live bucket with another key is not counted
RECURSIVE map_find_loop_keeps_remaining(_, _, _, _)
map_find_loop_keeps_remaining(self, key, i, remaining) ==
    LET capacity == self.buckets.capacity
        hash == key_hasher(key) % capacity
    IN  IF remaining > 0 /\ i < capacity
        THEN LET b == probe(hash, i, capacity)
                 bucket == self.buckets.array[b]
             IN  IF bucket.state = ds_BUCKET_EMPTY
                 THEN [self |-> self, ret |-> NULL, ok |-> TRUE, probes |-> i + 1]
                 ELSE IF bucket.state = ds_BUCKET_SKIP
                 THEN map_find_loop_keeps_remaining(self, key, i + 1, remaining)
                 ELSE IF x_y_equals(key, bucket.key)
                 THEN [self |-> self, ret |-> b, ok |-> TRUE, probes |-> i + 1]
                 ELSE map_find_loop_keeps_remaining(self, key, i + 1, remaining)
        ELSE [self |-> self, ret |-> NULL, ok |-> remaining = 0, probes |-> i]

\* the for loop of map_find; probes is the number of buckets it examined
RECURSIVE map_find_loop(_, _, _, _)
map_find_loop(self, key, i, remaining) ==
    LET capacity == self.buckets.capacity
        hash == key_hasher(key) % capacity
    IN  IF remaining > 0 /\ i < capacity
        THEN LET b == probe(hash, i, capacity)
                 bucket == self.buckets.array[b]
             IN  IF bucket.state = ds_BUCKET_EMPTY
                 THEN [self |-> self, ret |-> NULL, ok |-> TRUE, probes |-> i + 1]
                 ELSE IF bucket.state = ds_BUCKET_SKIP
                 THEN map_find_loop(self, key, i + 1, remaining)
                 ELSE IF x_y_equals(key, bucket.key)
                 THEN [self |-> self, ret |-> b, ok |-> TRUE, probes |-> i + 1]
                 ELSE map_find_loop(self, key, i + 1, remaining - 1)
        ELSE [self |-> self, ret |-> NULL, ok |-> remaining = 0, probes |-> i]

\* the returned pointer &bucket->value is the bucket's index, or NULL
map_find(self, key) == map_find_loop(self, key, 0, self.count)

map_contains(self, key) == map_find(self, key).ret # NULL

\* mutant of resize_skips: tombstones are carried over like live entries
resize_skips_carries_tombstones(bucket) == bucket.state = ds_BUCKET_EMPTY

\* whether map_resize passes over a bucket of the old array
resize_skips(bucket) == bucket.state # ds_BUCKET_OCCUPIED

\* the inner loop of map_resize: the first bucket of the new array, probing
\* from hash, that is not occupied (NULL when there is none)
RECURSIVE resize_target(_, _, _, _)
resize_target(array, hash, j, capacity) ==
    IF j < capacity
    THEN IF array[probe(hash, j, capacity)].state = ds_BUCKET_OCCUPIED
         THEN resize_target(array, hash, j + 1, capacity)
         ELSE probe(hash, j, capacity)
    ELSE NULL

\* the outer loop of map_resize over the old buckets, filling the new array
RECURSIVE map_resize_loop(_, _, _, _, _)
map_resize_loop(self, array, capacity, i, remaining) ==
    IF remaining > 0 /\ i < self.buckets.capacity
    THEN LET bucket == self.buckets.array[i]
         IN  IF resize_skips(bucket)
             THEN map_resize_loop(self, array, capacity, i + 1, remaining)
             ELSE LET hash == key_hasher(bucket.key) % capacity
                      t == resize_target(array, hash, 0, capacity)
                      filled == IF t = NULL THEN array
                                ELSE [array EXCEPT ![t] = bucket]
                  IN  map_resize_loop(self, filled, capacity, i + 1, remaining - 1)
    ELSE [array |-> array, ok |-> remaining = 0]

\* the caller guarantees capacity >= self.count (the opening assertion)
map_resize(self, capacity) ==
    IF capacity = self.count
    THEN [self |-> self, ret |-> NULL, ok |-> TRUE]
    ELSE LET fresh == [i \in 0..(capacity - 1) |-> ZeroBucket]
             r == map_resize_loop(self, fresh, capacity, 0, self.count)
         IN  [self |-> [self EXCEPT !.buckets.capacity = capacity,
                                    !.buckets.array = r.array],
              ret |-> NULL, ok |-> r.ok]

\* mutant of needs_rehash: the test forgets the entry about to be added
needs_rehash_without_new_entry(self) ==
    ds_MAP_LOAD_FACTOR_DEN * self.count
        > ds_MAP_LOAD_FACTOR_NUM * self.buckets.capacity

\* the load factor test that opens map_insert
needs_rehash(self) ==
    ds_MAP_LOAD_FACTOR_DEN * (self.count + 1)
        > ds_MAP_LOAD_FACTOR_NUM * self.buckets.capacity

\* mutant of insert_place: the live count is not incremented
insert_place_keeps_count(self, target, key, value) ==
    [self EXCEPT !.buckets.array[target] =
                     [key |-> key, value |-> value, state |-> ds_BUCKET_OCCUPIED]]

\* map_insert found an empty bucket: the new bucket goes to target
insert_place(self, target, key, value) ==
    [self EXCEPT !.count = @ + 1,
                 !.buckets.array[target] =
                     [key |-> key, value |-> value, state |-> ds_BUCKET_OCCUPIED]]

\* mutant of insert_overwrite: the old value is kept
insert_overwrite_keeps_value(self, b, value) == self

\* map_insert found an equal key in bucket b: the value is replaced
insert_overwrite(self, b, value) ==
    [self EXCEPT !.buckets.array[b].value = value]

\* one pass of the for loop of map_insert; done = FALSE when it ran off the end
RECURSIVE map_insert_probe(_, _, _, _, _)
map_insert_probe(self, key, value, i, target) ==
    LET capacity == self.buckets.capacity
        hash == key_hasher(key) % capacity
    IN  IF i < capacity
        THEN LET b == probe(hash, i, capacity)
                 bucket == self.buckets.array[b]
             IN  IF bucket.state = ds_BUCKET_EMPTY
                 THEN [done |-> TRUE, ret |-> FALSE,
                       self |-> insert_place(self, IF target = NULL THEN b ELSE target,
                                             key, value)]
                 ELSE IF bucket.state = ds_BUCKET_SKIP
                 THEN map_insert_probe(self, key, value, i + 1,
                                       IF target = NULL THEN b ELSE target)
                 ELSE IF x_y_equals(key, bucket.key)
                 THEN [done |-> TRUE, ret |-> TRUE,
                       self |-> insert_overwrite(self, b, value)]
                 ELSE map_insert_probe(self, key, value, i + 1, target)
        ELSE [done |-> FALSE, ret |-> FALSE, self |-> self]

\* mutant of map_insert_retry: a probe that ran off the end doubles twice
RECURSIVE map_insert_retry_grows_twice(_, _, _, _)
map_insert_retry_grows_twice(self, key, value, ok) ==
    LET p == map_insert_probe(self, key, value, 0, NULL)
    IN  IF p.done
        THEN [self |-> p.self, ret |-> p.ret, ok |-> ok]
        ELSE LET r == map_resize(self, ds_VECTOR_EXPANSION * ds_VECTOR_EXPANSION
                                           * self.buckets.capacity)
             IN  map_insert_retry_grows_twice(r.self, key, value, ok /\ r.ok)

\* the while (ds_true) loop of map_insert: probe, else grow and probe again
RECURSIVE map_insert_retry(_, _, _, _)
map_insert_retry(self, key, value, ok) ==
    LET p == map_insert_probe(self, key, value, 0, NULL)
    IN  IF p.done
        THEN [self |-> p.self, ret |-> p.ret, ok |-> ok]
        ELSE LET r == map_resize(self, ds_VECTOR_EXPANSION * self.buckets.capacity)
             IN  map_insert_retry(r.self, key, value, ok /\ r.ok)

map_insert(self, key, value) ==
    IF needs_rehash(self)
    THEN LET r == map_resize(self, ds_VECTOR_EXPANSION * self.buckets.capacity)
         IN  map_insert_retry(r.self, key, value, r.ok)
    ELSE map_insert_retry(self, key, value, TRUE)

\* mutant of erase_bucket: the bucket is emptied, no tombstone is left
erase_bucket_leaves_gap(self, b) ==
    [self EXCEPT !.count = @ - 1,
                 !.buckets.array[b].state = ds_BUCKET_EMPTY]

\* mutant of erase_bucket: the live count is not decremented
erase_bucket_keeps_count(self, b) ==
    [self EXCEPT !.buckets.array[b].state = ds_BUCKET_SKIP]

\* map_erase found the key in bucket b
erase_bucket(self, b) ==
    [self EXCEPT !.count = @ - 1,
                 !.buckets.array[b].state = ds_BUCKET_SKIP]

\* the for loop of map_erase; probes is the number of buckets it examined
RECURSIVE map_erase_loop(_, _, _, _)
map_erase_loop(self, key, i, remaining) ==
    LET capacity == self.buckets.capacity
        hash == key_hasher(key) % capacity
    IN  IF remaining > 0 /\ i < capacity
        THEN LET b == probe(hash, i, capacity)
                 bucket == self.buckets.array[b]
             IN  IF bucket.state = ds_BUCKET_EMPTY
                 THEN [self |-> self, ret |-> FALSE, ok |-> TRUE, probes |-> i + 1]
                 ELSE IF bucket.state = ds_BUCKET_SKIP
                 THEN map_erase_loop(self, key, i + 1, remaining)
                 ELSE IF x_y_equals(key, bucket.key)
                 THEN [self |-> erase_bucket(self, b), ret |-> TRUE, ok |-> TRUE,
                       probes |-> i + 1]
                 ELSE map_erase_loop(self, key, i + 1, remaining - 1)
        ELSE [self |-> self, ret |-> FALSE, ok |-> remaining = 0, probes |-> i]

map_erase(self, key) == map_erase_loop(self, key, 0, self.count)

\* the loop of map_clear: count goes down once per occupied bucket
RECURSIVE map_clear_loop(_, _, _)
map_clear_loop(self, i, count) ==
    IF count > 0 /\ i < self.buckets.capacity
    THEN IF self.buckets.array[i].state # ds_BUCKET_OCCUPIED
         THEN map_clear_loop(self, i + 1, count)
         ELSE map_clear_loop(self, i + 1, count - 1)
    ELSE count

\* mutant of map_clear: the buckets are zeroed, the count is left
map_clear_keeps_count(self) ==
    [self |-> [self EXCEPT !.buckets.array =
                               [i \in 0..(self.buckets.capacity - 1) |-> ZeroBucket]],
     ret |-> NULL, ok |-> TRUE]

\* the memset after the loop zeroes every bucket
map_clear(self) ==
    [self |-> [self EXCEPT !.count = map_clear_loop(self, 0, self.count),
                           !.buckets.array =
                               [i \in 0..(self.buckets.capacity - 1) |-> ZeroBucket]],
     ret |-> NULL, ok |-> TRUE]

(***************************************************************************)
(* Dynamic array (ds/ds_vector.h).  A vector is [count, capacity, array];  *)
(* array is a function on 0..count-1: the elements past count are          *)
(* uninitialised storage that no operation reads.                          *)
(***************************************************************************)
vector_new(capacity) ==
    [count |-> 0, capacity |-> capacity, array |-> <<>>]

\* mutant of vector_resize: shrinking below count passes
vector_resize_truncates(self, capacity) ==
    IF capacity = self.capacity
    THEN [self |-> self, ok |-> capacity > 0]
    ELSE IF capacity < self.count
    THEN [self |-> [count |-> capacity, capacity |-> capacity,
                    array |-> [i \in 0..(capacity - 1) |-> self.array[i]]],
          ok |-> capacity > 0]
    ELSE [self |-> [self EXCEPT !.capacity = capacity], ok |-> capacity > 0]

\* with ds_VECTOR_TRUNC_ASSERT shrinking below count fails an assertion
vector_resize(self, capacity) ==
    IF capacity = self.capacity
    THEN [self |-> self, ok |-> capacity > 0]
    ELSE IF capacity < self.count
    THEN [self |-> [count |-> capacity, capacity |-> capacity,
                    array |-> [i \in 0..(capacity - 1) |-> self.array[i]]],
          ok |-> capacity > 0 /\ ds_VECTOR_TRUNC_ASSERT = 0]
    ELSE [self |-> [self EXCEPT !.capacity = capacity], ok |-> capacity > 0]

\* mutant of vector_insert: the element is put behind the last one
vector_insert_at_end(self, index, data) ==
    LET r == IF self.count = self.capacity
             THEN vector_resize(self, self.capacity * ds_VECTOR_EXPANSION)
             ELSE [self |-> self, ok |-> TRUE]
    IN  IF index > self.count THEN [self |-> self, ok |-> FALSE]
        ELSE [self |-> [count |-> self.count + 1,
                        capacity |-> r.self.capacity,
                        array |-> [i \in 0..self.count |->
                                      IF i = self.count THEN data
                                      ELSE self.array[i]]],
              ok |-> r.ok]

\* the tail from index moves up by one, data goes to index
vector_insert(self, index, data) ==
    LET r == IF self.count = self.capacity
             THEN vector_resize(self, self.capacity * ds_VECTOR_EXPANSION)
             ELSE [self |-> self, ok |-> TRUE]
    IN  IF index > self.count THEN [self |-> self, ok |-> FALSE]
        ELSE [self |-> [count |-> self.count + 1,
                        capacity |-> r.self.capacity,
                        array |-> [i \in 0..self.count |->
                                      IF i < index THEN self.array[i]
                                      ELSE IF i = index THEN data
                                      ELSE self.array[i - 1]]],
              ok |-> r.ok]

\* the tail behind index moves down by one
vector_erase(self, index) ==
    IF index >= self.count THEN [self |-> self, ok |-> FALSE]
    ELSE [self |-> [count |-> self.count - 1,
                    capacity |-> self.capacity,
                    array |-> [i \in 0..(self.count - 2) |->
                                  IF i < index THEN self.array[i]
                                  ELSE self.array[i + 1]]],
          ok |-> TRUE]

\* mutant of vector_pop: count stays
vector_pop_keeps_count(self) ==
    [self |-> self, ok |-> self.count > 0]

vector_pop(self) ==
    IF self.count = 0 THEN [self |-> self, ok |-> FALSE]
    ELSE [self |-> [count |-> self.count - 1,
                    capacity |-> self.capacity,
                    array |-> [i \in 0..(self.count - 2) |-> self.array[i]]],
          ok |-> TRUE]

\* mutant of vector_push: a full vector grows by one element
vector_push_grows_by_one(self, data) ==
    [self |-> [count |-> self.count + 1,
               capacity |-> IF self.count = self.capacity
                            THEN self.capacity + 1 ELSE self.capacity,
               array |-> [i \in 0..self.count |->
                             IF i = self.count THEN data
                             ELSE self.array[i]]],
     ok |-> TRUE]

vector_push(self, data) ==
    LET r == IF self.count = self.capacity
             THEN vector_resize(self, self.capacity * ds_VECTOR_EXPANSION)
             ELSE [self |-> self, ok |-> TRUE]
    IN  [self |-> [count |-> r.self.count + 1,
                   capacity |-> r.self.capacity,
                   array |-> [i \in 0..r.self.count |->
                                 IF i = r.self.count THEN data
                                 ELSE r.self.array[i]]],
         ok |-> r.ok]

\* mutant of vector_filter_loop: a kept element is counted but not moved down
RECURSIVE vector_filter_loop_in_place(_, _, _, _, _, _)
vector_filter_loop_in_place(array, count, predicate, i, total, deleted) ==
    IF i < count
    THEN IF predicate[array[i]] # ds_false
         THEN vector_filter_loop_in_place(array, count, predicate, i + 1,
                                          total + 1, deleted)
         ELSE vector_filter_loop_in_place(array, count, predicate, i + 1,
                                          total, Append(deleted, <<i, array[i]>>))
    ELSE [array |-> array, total |-> total, deleted |-> deleted]

\* the for loop of vector_filter; deleted lists the calls of the deleter:
\* the index it was given and the element that was there
RECURSIVE vector_filter_loop(_, _, _, _, _, _)
vector_filter_loop(array, count, predicate, i, total, deleted) ==
    IF i < count
    THEN IF predicate[array[i]] # ds_false
         THEN vector_filter_loop([array EXCEPT ![total] = array[i]], count,
                                 predicate, i + 1, total + 1, deleted)
         ELSE vector_filter_loop(array, count, predicate, i + 1, total,
                                 Append(deleted, <<i, array[i]>>))
    ELSE [array |-> array, total |-> total, deleted |-> deleted]

\* predicate is a function from T to ds_bool; ret is the returned total
vector_filter(self, predicate) ==
    IF self.count > self.capacity
    THEN [self |-> self, ret |-> 0, deleted |-> <<>>, ok |-> FALSE]
    ELSE LET r == vector_filter_loop(self.array, self.count, predicate, 0, 0, <<>>)
         IN  [self |-> [count |-> r.total,
                        capacity |-> self.capacity,
                        array |-> [i \in 0..(r.total - 1) |-> r.array[i]]],
              ret |-> r.total, deleted |-> r.deleted, ok |-> TRUE]

(***************************************************************************)
(* Slab allocator (ds_slab.h).  A slab is [count, next, buckets]: next is  *)
(* the id [index, age] the next borrow hands out, buckets the vector of    *)
(* blocks [data, age]; age 0 marks a free block.                           *)
(***************************************************************************)
\* mutant of uint_inc: the counter stays at its greatest value
uint_inc_saturates(x) == IF x + 1 = ds_UINT_MOD THEN x ELSE x + 1

\* ++ on a ds_uint
uint_inc(x) == (x + 1) % ds_UINT_MOD

slab_new(capacity) ==
    [count |-> 0, next |-> [index |-> 0, age |-> 1],
     buckets |-> vector_new(capacity)]

\* mutant of slab_valid: the block's age is not compared with the id's
slab_valid_ignores_age(self, id) ==
    IF self.count = 0 \/ id.index >= self.buckets.count
    THEN FALSE
    ELSE self.buckets.array[id.index].age # 0

slab_valid(self, id) ==
    IF self.count = 0 \/ id.index >= self.buckets.count
    THEN FALSE
    ELSE LET age == self.buckets.array[id.index].age
         IN  age # 0 /\ age = id.age

\* the pointer &array[id.index].data is the block's index; NULL stands for
\* the failed assertion
slab_get(self, id) ==
    IF slab_valid(self, id)
    THEN [self |-> self, ret |-> id.index, ok |-> TRUE]
    ELSE [self |-> self, ret |-> NULL, ok |-> FALSE]

\* mutant of next_free: the hint moves one block on without looking for a
\* free one
next_free_without_scan(array, index, count) == uint_inc(index)

\* do ++index while (index < count && array[index].age != 0)
RECURSIVE next_free(_, _, _)
next_free(array, index, count) ==
    LET n == uint_inc(index)
    IN  IF n < count /\ array[n].age # 0
        THEN next_free(array, n, count)
        ELSE n

\* mutant of borrow_reuse: the block's age is left as it was
borrow_reuse_keeps_age(vector, id, data) ==
    [vector EXCEPT !.array[id.index].data = data]

\* the else branch of slab_borrow: the free block at id.index is taken
borrow_reuse(vector, id, data) ==
    [vector EXCEPT !.array[id.index] = [data |-> data, age |-> id.age]]

slab_borrow(self, data) ==
    LET vector == self.buckets
        id == self.next
        pushed == vector_push(vector, [data |-> data, age |-> id.age])
        appended == id.index = vector.count
        v == IF appended THEN pushed.self ELSE borrow_reuse(vector, id, data)
        index == IF appended THEN uint_inc(id.index)
                 ELSE next_free(v.array, id.index, v.count)
        age == uint_inc(id.age)
    IN  [self |-> [count |-> self.count + 1,
                   next |-> [index |-> index, age |-> age],
                   buckets |-> v],
         ret |-> id,
         ok |-> /\ self.count <= vector.count
                /\ appended => (pushed.ok /\ self.count < v.count)
                /\ age > 0]

\* mutant of slab_return: the hint is not moved down to the returned block
slab_return_keeps_hint(self, id) ==
    IF self.count > 0 /\ slab_valid(self, id)
    THEN [self |-> [count |-> self.count - 1,
                    next |-> self.next,
                    buckets |-> [self.buckets EXCEPT !.array[id.index].age = 0]],
          ret |-> NULL, ok |-> TRUE]
    ELSE [self |-> self, ret |-> NULL, ok |-> FALSE]

\* mutant of slab_return: the live count is not decremented
slab_return_keeps_count(self, id) ==
    IF self.count > 0 /\ slab_valid(self, id)
    THEN [self |-> [count |-> self.count,
                    next |-> [index |-> IF self.next.index > id.index
                                        THEN id.index ELSE self.next.index,
                              age |-> self.next.age],
                    buckets |-> [self.buckets EXCEPT !.array[id.index].age = 0]],
          ret |-> NULL, ok |-> TRUE]
    ELSE [self |-> self, ret |-> NULL, ok |-> FALSE]

\* mutant of slab_return: the block keeps its age
slab_return_keeps_age(self, id) ==
    IF self.count > 0 /\ slab_valid(self, id)
    THEN [self |-> [count |-> self.count - 1,
                    next |-> [index |-> IF self.next.index > id.index
                                        THEN id.index ELSE self.next.index,
                              age |-> self.next.age],
                    buckets |-> self.buckets],
          ret |-> NULL, ok |-> TRUE]
    ELSE [self |-> self, ret |-> NULL, ok |-> FALSE]

\* mutant of slab_return: the id's age is not checked against the block's
slab_return_any_age(self, id) ==
    IF self.count > 0 /\ id.index < self.buckets.count
    THEN [self |-> [count |-> self.count - 1,
                    next |-> [index |-> IF self.next.index > id.index
                                        THEN id.index ELSE self.next.index,
                              age |-> self.next.age],
                    buckets |-> [self.buckets EXCEPT !.array[id.index].age = 0]],
          ret |-> NULL, ok |-> TRUE]
    ELSE [self |-> self, ret |-> NULL, ok |-> FALSE]

\* the assertions come first: an id that is not valid changes nothing
slab_return(self, id) ==
    IF self.count > 0 /\ slab_valid(self, id)
    THEN [self |-> [count |-> self.count - 1,
                    next |-> [index |-> IF self.next.index > id.index
                                        THEN id.index ELSE self.next.index,
                              age |-> self.next.age],
                    buckets |-> [self.buckets EXCEPT !.array[id.index].age = 0]],
          ret |-> NULL, ok |-> TRUE]
    ELSE [self |-> self, ret |-> NULL, ok |-> FALSE]

\* mutant of slab_clear: the age counter starts again at 1
slab_clear_resets_age(self) ==
    IF self.count = 0
    THEN [self |-> self, ret |-> NULL, ok |-> TRUE]
    ELSE [self |-> [count |-> 0,
                    next |-> [index |-> 0, age |-> 1],
                    buckets |-> [self.buckets EXCEPT !.array =
                        [i \in DOMAIN self.buckets.array |->
                            [self.buckets.array[i] EXCEPT !.age = 0]]]],
          ret |-> NULL, ok |-> TRUE]

\* the blocks the loop of slab_clear frees: the first n live ones
RECURSIVE clear_loop(_, _, _)
clear_loop(array, i, count) ==
    IF count = 0 \/ i \notin DOMAIN array
    THEN [array |-> array, count |-> count]
    ELSE IF array[i].age = 0
    THEN clear_loop(array, i + 1, count)
    ELSE clear_loop([array EXCEPT ![i].age = 0], i + 1, count - 1)

slab_clear(self) ==
    IF self.count = 0
    THEN [self |-> self, ret |-> NULL, ok |-> TRUE]
    ELSE LET r == clear_loop(self.buckets.array, 0, self.count)
         IN  [self |-> [count |-> r.count,
                        next |-> [index |-> 0, age |-> self.next.age],
                        buckets |-> [self.buckets EXCEPT !.array = r.array]],
              ret |-> NULL, ok |-> r.count = 0]

(***************************************************************************)
(* The map's client: any sequence of insert, erase, find, resize, clear.   *)
(* mop records the last call: its name, arguments, result and the map      *)
(* before it.  A failed assertion aborts: nothing runs afterwards.  The    *)
(* slab is not in use.                                                     *)
(***************************************************************************)
MapCall(op, key, value, capacity, r) ==
    /\ mop' = [op |-> op, key |-> key, value |-> value, capacity |-> capacity,
               ret |-> r.ret, aborted |-> ~r.ok, pre |-> map]
    /\ map' = r.self
    /\ UNCHANGED <<slabVars, signalVars, setVars, vectorVars, sharedVars, arenaVars>>

MapInit ==
    /\ \E capacity \in 1..MaxCapacity : map = map_new(capacity)
    /\ mop = [op |-> "new", key |-> 0, value |-> FALSE, capacity |-> 0,
              ret |-> NULL, aborted |-> FALSE, pre |-> map]
    /\ slab = 0
    /\ sop = 0
    /\ issued = <<>>
    /\ retired = {}
    /\ signal = 0
    /\ invoke = 0
    /\ sets = 0
    /\ setop = 0
    /\ vec = 0
    /\ vop = 0
    /\ shared = 0
    /\ shop = 0
    /\ arena = 0
    /\ aop = 0

MapInsert ==
    \E key \in Keys, value \in Values :
        LET r == map_insert(map, key, value)
        IN  /\ ~mop.aborted
            /\ r.self.buckets.capacity <= MaxCapacity
            /\ MapCall("insert", key, value, 0, r)

MapErase ==
    \E key \in Keys :
        /\ ~mop.aborted
        /\ MapCall("erase", key, FALSE, 0, map_erase(map, key))

MapFind ==
    \E key \in Keys :
        /\ ~mop.aborted
        /\ MapCall("find", key, FALSE, 0, map_find(map, key))

MapResize ==
    \E capacity \in 0..MaxCapacity :
        /\ ~mop.aborted
        /\ capacity >= map.count
        /\ MapCall("resize", 0, FALSE, capacity, map_resize(map, capacity))

MapClear ==
    /\ ~mop.aborted
    /\ MapCall("clear", 0, FALSE, 0, map_clear(map))

MapNext == MapInsert \/ MapErase \/ MapFind \/ MapResize \/ MapClear

(***************************************************************************)
(* The slab's client: any sequence of borrow, return and clear.  sop       *)
(* records the last call and the slab before it; issued lists the ids      *)
(* borrow has returned, in order; retired holds the ids that were passed   *)
(* to return or were live when the slab was cleared.  The map is not in    *)
(* use.                                                                    *)
(***************************************************************************)
Range(f) == {f[i] : i \in DOMAIN f}

SlabCall(op, id, data, r) ==
    /\ sop' = [op |-> op, id |-> id, data |-> data, ret |-> r.ret,
               aborted |-> ~r.ok, pre |-> slab]
    /\ slab' = r.self
    /\ UNCHANGED <<mapVars, signalVars, setVars, vectorVars, sharedVars, arenaVars>>

NoId == [index |-> 0, age |-> 0]

SlabInit ==
    /\ \E capacity \in 1..MaxSlabCapacity : slab = slab_new(capacity)
    /\ sop = [op |-> "new", id |-> NoId, data |-> FALSE, ret |-> NULL,
              aborted |-> FALSE, pre |-> slab]
    /\ issued = <<>>
    /\ retired = {}
    /\ map = 0
    /\ mop = 0
    /\ signal = 0
    /\ invoke = 0
    /\ sets = 0
    /\ setop = 0
    /\ vec = 0
    /\ vop = 0
    /\ shared = 0
    /\ shop = 0
    /\ arena = 0
    /\ aop = 0

SlabBorrow ==
    \E data \in Values :
        LET r == slab_borrow(slab, data)
        IN  /\ ~sop.aborted
            /\ SlabCall("borrow", NoId, data, r)
            /\ issued' = IF r.ok THEN Append(issued, r.ret) ELSE issued
            /\ UNCHANGED retired

\* the client passes an id it was given (live or stale) or the one not yet
\* issued
SlabReturn ==
    \E id \in Range(issued) \cup {slab.next} :
        LET r == slab_return(slab, id)
        IN  /\ ~sop.aborted
            /\ SlabCall("return", id, FALSE, r)
            /\ retired' = IF r.ok THEN retired \cup {id} ELSE retired
            /\ UNCHANGED issued

SlabGet ==
    \E id \in Range(issued) \cup {slab.next} :
        /\ ~sop.aborted
        /\ SlabCall("get", id, FALSE, slab_get(slab, id))
        /\ UNCHANGED <<issued, retired>>

SlabClear ==
    /\ ~sop.aborted
    /\ SlabCall("clear", NoId, FALSE, slab_clear(slab))
    /\ retired' = Range(issued)
    /\ UNCHANGED issued

SlabNext == SlabBorrow \/ SlabReturn \/ SlabGet \/ SlabClear

SlabSpec == SlabInit /\ [][SlabNext]_vars

MapSpec == MapInit /\ [][MapNext]_vars

(***************************************************************************)
(* Signal (ds/ds_signal.h).  A signal is [bindings]: a slab of bindings    *)
(* (target, func).  The payload stored per binding is its target; the      *)
(* function it names is the callback the invoking pass runs.               *)
(***************************************************************************)
signal_new(capacity) == [bindings |-> slab_new(capacity)]

signal_bound(self, handle) == slab_valid(self.bindings, handle)

signal_bind(self, target) ==
    LET r == slab_borrow(self.bindings, target)
    IN  [self |-> [bindings |-> r.self], ret |-> r.ret, ok |-> r.ok]

signal_unbind(self, handle) ==
    IF signal_bound(self, handle)
    THEN LET r == slab_return(self.bindings, handle)
         IN  [self |-> [bindings |-> r.self], ret |-> NULL, ok |-> r.ok]
    ELSE [self |-> self, ret |-> NULL, ok |-> FALSE]

\* the handles that are bound in a signal
Bound(self) == {h \in [index : 0..(ds_UINT_MOD - 1), age : 1..(ds_UINT_MOD - 1)] :
                   signal_bound(self, h)}

(***************************************************************************)
(* The signal's client.  Outside a pass it binds, unbinds a bound handle   *)
(* or starts signal_invoke.  invoke holds the position of the pass: pc,    *)
(* the loop variables i and remaining, and what the pass has done so far:  *)
(* atStart are the handles bound when it started, called the handles of    *)
(* the bindings whose function it ran, in order, bound and unbound the     *)
(* handles the callbacks bound and unbound.  A callback does nothing,      *)
(* binds once or unbinds one bound handle.  A bind that would wrap the     *)
(* age counter is not made.                                                *)
(***************************************************************************)
Idle == [pc |-> "idle", i |-> 0, remaining |-> 0, atStart |-> {},
         called |-> <<>>, bound |-> {}, unbound |-> {}]

SignalInit ==
    /\ \E capacity \in 1..MaxSlabCapacity : signal = signal_new(capacity)
    /\ invoke = Idle
    /\ map = 0
    /\ mop = 0
    /\ slab = 0
    /\ sop = 0
    /\ issued = <<>>
    /\ retired = {}
    /\ sets = 0
    /\ setop = 0
    /\ vec = 0
    /\ vop = 0
    /\ shared = 0
    /\ shop = 0
    /\ arena = 0
    /\ aop = 0

SignalBind ==
    \E target \in Values :
        LET r == signal_bind(signal, target)
        IN  /\ invoke.pc \in {"idle", "done"}
            /\ r.ok
            /\ signal' = r.self
            /\ invoke' = Idle
            /\ UNCHANGED <<mapVars, slabVars, setVars, vectorVars, sharedVars, arenaVars>>

SignalUnbind ==
    \E handle \in Bound(signal) :
        /\ invoke.pc \in {"idle", "done"}
        /\ signal' = signal_unbind(signal, handle).self
        /\ invoke' = Idle
        /\ UNCHANGED <<mapVars, slabVars, setVars, vectorVars, sharedVars, arenaVars>>

\* ds_size remaining = (self)->bindings.count; i = 0
InvokeStart ==
    /\ invoke.pc \in {"idle", "done"}
    /\ signal.bindings.count <= signal.bindings.buckets.count
    /\ invoke' = [pc |-> "loop", i |-> 0,
                  remaining |-> signal.bindings.count,
                  atStart |-> Bound(signal),
                  called |-> <<>>, bound |-> {}, unbound |-> {}]
    /\ UNCHANGED <<signal, mapVars, slabVars, setVars, vectorVars,
                 sharedVars, arenaVars>>

\* the loop condition of signal_invoke
InvokeLoops ==
    invoke.remaining > 0 /\ invoke.i < signal.bindings.buckets.count

\* an iteration that finds a free block: continue
InvokeSkip ==
    /\ invoke.pc = "loop"
    /\ InvokeLoops
    /\ signal.bindings.buckets.array[invoke.i].age = 0
    /\ invoke' = [invoke EXCEPT !.i = invoke.i + 1]
    /\ UNCHANGED <<signal, mapVars, slabVars, setVars, vectorVars,
                 sharedVars, arenaVars>>

\* what the function of a binding may do to the signal it was called from
Callbacks(self) ==
    {[self |-> self, bound |-> {}, unbound |-> {}]}
    \cup {[self |-> signal_bind(self, target).self,
           bound |-> {signal_bind(self, target).ret}, unbound |-> {}] :
             target \in {t \in Values : signal_bind(self, t).ok}}
    \cup {[self |-> signal_unbind(self, handle).self,
           bound |-> {}, unbound |-> {handle}] : handle \in Bound(self)}

\* an iteration that finds a live block: its function runs, --remaining
InvokeCall ==
    /\ invoke.pc = "loop"
    /\ InvokeLoops
    /\ signal.bindings.buckets.array[invoke.i].age # 0
    /\ \E c \in Callbacks(signal) :
           /\ signal' = c.self
           /\ invoke' = [invoke EXCEPT
                  !.i = invoke.i + 1,
                  !.remaining = invoke.remaining - 1,
                  !.called = Append(invoke.called,
                      [index |-> invoke.i,
                       age |-> signal.bindings.buckets.array[invoke.i].age]),
                  !.bound = invoke.bound \cup c.bound,
                  !.unbound = invoke.unbound \cup c.unbound]
    /\ UNCHANGED <<mapVars, slabVars, setVars, vectorVars, sharedVars, arenaVars>>

\* the loop is left: ds_assert(remaining == 0)
InvokeEnd ==
    /\ invoke.pc = "loop"
    /\ ~InvokeLoops
    /\ invoke' = [invoke EXCEPT
           !.pc = IF invoke.remaining = 0 THEN "done" ELSE "aborted"]
    /\ UNCHANGED <<signal, mapVars, slabVars, setVars, vectorVars,
                 sharedVars, arenaVars>>

SignalNext ==
    SignalBind \/ SignalUnbind \/ InvokeStart \/ InvokeSkip \/ InvokeCall
        \/ InvokeEnd

SignalSpec == SignalInit /\ [][SignalNext]_vars

(***************************************************************************)
(* Sorted set (ds/ds_set.h).  A set is [count, root]; its nodes           *)
(* [data, left, right] live on the heap, at the addresses 1..HeapSize;     *)
(* NULL is the null pointer.  The program holds two sets, a and b.  The    *)
(* operations work on a world [heap, a, b, abort, uaf, visits] and name    *)
(* the set they act on: abort is set by a failed assertion, uaf by a read  *)
(* of a node that was freed; visits lists, during a call of intersect,     *)
(* the nodes its walk has entered.  T is an integer type with              *)
(* ds_DEFAULT_COMPARE and ds_DEFAULT_EQUALS.                               *)
(***************************************************************************)
Elems == 0..MaxElem
\* room for every element of both sets
HeapSize == 2 * (MaxElem + 1)
Addrs == 1..HeapSize
Names == {"a", "b"}

x_y_comparer(x, y) == x > y

FreeNode == [data |-> 0, left |-> NULL, right |-> NULL, live |-> FALSE]

set_new == [count |-> 0, root |-> NULL]

\* calloc may return any free block, and the program only compares node
\* pointers for equality, so which block it returns changes nothing the
\* program does.  The allocator of the model hands out the block Block(s, x)
\* for the node of value x in set s while that block is free, and else the
\* lowest free block; NULL when none is left.  A pair of trees so has one
\* heap.
Block(s, data) == (IF s = "a" THEN 0 ELSE MaxElem + 1) + data + 1

ds_calloc(heap, s, data) ==
    LET free == {p \in Addrs : ~heap[p].live}
    IN  IF Block(s, data) \in free THEN Block(s, data)
        ELSE IF free = {} THEN NULL
        ELSE CHOOSE p \in free : \A q \in free : p <= q

ds_free(heap, node) == [heap EXCEPT ![node] = FreeNode]

Abort(w) == [w EXCEPT !.abort = TRUE]
Fault(w) == [w EXCEPT !.uaf = TRUE]
Stop(w) == w.abort \/ w.uaf
\* the walk enters node
Visit(w, node) == [w EXCEPT !.visits = Append(@, node)]

RECURSIVE set_find_loop(_, _, _)
set_find_loop(heap, current, data) ==
    IF current = NULL THEN NULL
    ELSE IF x_y_equals(data, heap[current].data) THEN current
    ELSE IF x_y_comparer(data, heap[current].data)
    THEN set_find_loop(heap, heap[current].right, data)
    ELSE set_find_loop(heap, heap[current].left, data)

\* the address of the node found, or NULL; ok is the assertion of find
set_find(w, s, data) ==
    [ret |-> set_find_loop(w.heap, w[s].root, data),
     ok |-> (w[s].root = NULL) = (w[s].count = 0)]

set_contains(w, s, data) == set_find(w, s, data).ret # NULL

\* mutant of insert_leaf: the new node hangs on the other side
insert_leaf_other_side(w, s, current, side, data) ==
    LET node == ds_calloc(w.heap, s, data)
        other == IF side = "left" THEN "right" ELSE "left"
    IN  IF node = NULL \/ w.heap[current][other] # NULL THEN Abort(w)
        ELSE [w EXCEPT ![s].count = @ + 1,
                       !.heap = [@ EXCEPT
                           ![node] = [data |-> data, left |-> NULL,
                                      right |-> NULL, live |-> TRUE],
                           ![current][other] = node]]

\* mutant of insert_leaf: count is not incremented
insert_leaf_keeps_count(w, s, current, side, data) ==
    LET node == ds_calloc(w.heap, s, data)
    IN  IF node = NULL THEN Abort(w)
        ELSE [w EXCEPT !.heap = [@ EXCEPT
                           ![node] = [data |-> data, left |-> NULL,
                                      right |-> NULL, live |-> TRUE],
                           ![current][side] = node]]

\* ++count; a new node holding data is linked below current on side
insert_leaf(w, s, current, side, data) ==
    LET node == ds_calloc(w.heap, s, data)
    IN  IF node = NULL THEN Abort(w)
        ELSE [w EXCEPT ![s].count = @ + 1,
                       !.heap = [@ EXCEPT
                           ![node] = [data |-> data, left |-> NULL,
                                      right |-> NULL, live |-> TRUE],
                           ![current][side] = node]]

\* the branch of insert for an empty set
insert_root(w, s, data) ==
    LET node == ds_calloc(w.heap, s, data)
    IN  IF w[s].count # 0 \/ node = NULL THEN Abort(w)
        ELSE [w EXCEPT ![s] = [count |-> w[s].count + 1, root |-> node],
                       !.heap[node] = [data |-> data, left |-> NULL,
                                       right |-> NULL, live |-> TRUE]]

RECURSIVE insert_loop(_, _, _, _)
insert_loop(w, s, current, data) ==
    LET y == w.heap[current].data
        side == IF x_y_comparer(data, y) THEN "right" ELSE "left"
    IN  IF x_y_equals(data, y)
        THEN [w |-> [w EXCEPT !.heap[current].data = data], ret |-> TRUE]
        ELSE IF w.heap[current][side] = NULL
        THEN [w |-> insert_leaf(w, s, current, side, data), ret |-> FALSE]
        ELSE insert_loop(w, s, w.heap[current][side], data)

set_insert(w, s, data) ==
    IF w[s].root = NULL
    THEN [w |-> insert_root(w, s, data), ret |-> FALSE]
    ELSE IF w[s].count = 0
    THEN [w |-> Abort(w), ret |-> FALSE]
    ELSE insert_loop(w, s, w[s].root, data)

\* while (replace->right != NULL) { replace_parent = replace; ... }
RECURSIVE rightmost(_, _, _)
rightmost(heap, replace_parent, replace) ==
    IF heap[replace].right # NULL
    THEN rightmost(heap, replace, heap[replace].right)
    ELSE [replace |-> replace, replace_parent |-> replace_parent]

\* mutant of erase_promote: the promoted node does not take over the right
\* subtree of the erased one
erase_promote_drops_right(heap, current) ==
    IF heap[current].left # NULL
    THEN LET r == rightmost(heap, current, heap[current].left)
             h1 == IF r.replace_parent = current
                   THEN [heap EXCEPT ![current].left = heap[r.replace].left]
                   ELSE [heap EXCEPT
                            ![r.replace_parent].right = heap[r.replace].left]
             h2 == IF h1[current].left # r.replace
                   THEN [h1 EXCEPT ![r.replace].left = h1[current].left]
                   ELSE h1
         IN  [heap |-> h2, replace |-> r.replace]
    ELSE [heap |-> heap, replace |-> heap[current].right]

\* the node that takes the place of current: the greatest node of its left
\* subtree, unlinked and given both subtrees of current, or else the right
\* child of current
erase_promote(heap, current) ==
    IF heap[current].left # NULL
    THEN LET r == rightmost(heap, current, heap[current].left)
             h1 == IF r.replace_parent = current
                   THEN [heap EXCEPT ![current].left = heap[r.replace].left]
                   ELSE [heap EXCEPT
                            ![r.replace_parent].right = heap[r.replace].left]
             h2 == IF h1[current].left # r.replace
                   THEN [h1 EXCEPT ![r.replace].left = h1[current].left]
                   ELSE h1
             h3 == [h2 EXCEPT ![r.replace].right = h2[current].right]
         IN  [heap |-> h3, replace |-> r.replace]
    ELSE [heap |-> heap, replace |-> heap[current].right]

\* mutant of erase_node: count is not decremented
erase_node_keeps_count(w, s, parent, current) ==
    LET p == erase_promote(w.heap, current)
        linked == IF parent = NULL THEN p.heap
                  ELSE IF p.heap[parent].left = current
                  THEN [p.heap EXCEPT ![parent].left = p.replace]
                  ELSE [p.heap EXCEPT ![parent].right = p.replace]
    IN  [w EXCEPT ![s].root = IF parent = NULL THEN p.replace ELSE @,
                  !.heap = ds_free(linked, current)]

\* the branch of erase for the node that holds the value: --count, the
\* replacement is linked to parent or becomes the root, current is freed
erase_node(w, s, parent, current) ==
    LET p == erase_promote(w.heap, current)
        linked == IF parent = NULL THEN p.heap
                  ELSE IF p.heap[parent].left = current
                  THEN [p.heap EXCEPT ![parent].left = p.replace]
                  ELSE [p.heap EXCEPT ![parent].right = p.replace]
    IN  [w EXCEPT ![s].count = @ - 1,
                  ![s].root = IF parent = NULL THEN p.replace ELSE @,
                  !.heap = ds_free(linked, current)]

RECURSIVE erase_loop(_, _, _, _, _)
erase_loop(w, s, parent, current, data) ==
    LET y == w.heap[current].data
        side == IF x_y_comparer(data, y) THEN "right" ELSE "left"
    IN  IF x_y_equals(data, y)
        THEN [w |-> erase_node(w, s, parent, current), ret |-> TRUE]
        ELSE IF w.heap[current][side] = NULL
        THEN [w |-> w, ret |-> FALSE]
        ELSE erase_loop(w, s, current, w.heap[current][side], data)

set_erase(w, s, data) ==
    IF w[s].root = NULL
    THEN [w |-> IF w[s].count # 0 THEN Abort(w) ELSE w, ret |-> FALSE]
    ELSE IF w[s].count = 0
    THEN [w |-> Abort(w), ret |-> FALSE]
    ELSE erase_loop(w, s, NULL, w[s].root, data)

\* post-order: left, right, then insert(self, node->data)
RECURSIVE ds__set_copy(_, _, _)
ds__set_copy(w, s, node) ==
    IF ~w.heap[node].live THEN Fault(w)
    ELSE
    LET w1 == IF w.heap[node].left # NULL
              THEN ds__set_copy(w, s, w.heap[node].left) ELSE w
        w2 == IF Stop(w1) THEN w1
              ELSE IF ~w1.heap[node].live THEN Fault(w1)
              ELSE IF w1.heap[node].right # NULL
              THEN ds__set_copy(w1, s, w1.heap[node].right) ELSE w1
    IN  IF Stop(w2) THEN w2
        ELSE IF ~w2.heap[node].live THEN Fault(w2)
        ELSE set_insert(w2, s, w2.heap[node].data).w

\* mutant of set_copy: the new set shares the nodes of the old one
set_copy_shallow(w, s, t) == [w EXCEPT ![s] = w[t]]

\* s receives the set that copy builds from t
set_copy(w, s, t) ==
    LET w0 == [w EXCEPT ![s] = set_new]
        w1 == IF w[t].root # NULL THEN ds__set_copy(w0, s, w[t].root) ELSE w0
    IN  IF (w[t].root = NULL) # (w[t].count = 0) THEN Abort(w)
        ELSE IF Stop(w1) THEN w1
        ELSE IF w1[s].count # w1[t].count THEN Abort(w1)
        ELSE w1

\* in-order over the nodes of self, stopping at the first value that set
\* does not contain
RECURSIVE ds__set_subset(_, _, _)
ds__set_subset(w, t, node) ==
    /\ w.heap[node].left # NULL => ds__set_subset(w, t, w.heap[node].left)
    /\ set_contains(w, t, w.heap[node].data)
    /\ w.heap[node].right # NULL => ds__set_subset(w, t, w.heap[node].right)

set_subset(w, s, t, or_equal) ==
    IF w[s].root = NULL THEN TRUE
    ELSE /\ ds__set_subset(w, t, w[s].root)
         /\ (or_equal # ds_false \/ w[s].count # w[t].count)

\* in-order: left, insert(self, node->data), right
RECURSIVE ds__set_union(_, _, _)
ds__set_union(w, s, node) ==
    IF ~w.heap[node].live THEN Fault(w)
    ELSE
    LET w1 == IF w.heap[node].left # NULL
              THEN ds__set_union(w, s, w.heap[node].left) ELSE w
        w2 == IF Stop(w1) THEN w1
              ELSE IF ~w1.heap[node].live THEN Fault(w1)
              ELSE set_insert(w1, s, w1.heap[node].data).w
    IN  IF Stop(w2) THEN w2
        ELSE IF ~w2.heap[node].live THEN Fault(w2)
        ELSE IF w2.heap[node].right # NULL
        THEN ds__set_union(w2, s, w2.heap[node].right) ELSE w2

\* mutant of set_union: only the value at the root of set is inserted
set_union_root_only(w, s, t) ==
    IF w[t].root # NULL
    THEN set_insert(w, s, w.heap[w[t].root].data).w
    ELSE w

set_union(w, s, t) ==
    IF w[t].root # NULL THEN ds__set_union(w, s, w[t].root) ELSE w

\* post-order over the nodes of self: left, right, then erase(self,
\* node->data) when set does not contain it
\* mutant of ds__set_intersect: the node is handled before its subtrees
RECURSIVE ds__set_intersect_preorder(_, _, _, _)
ds__set_intersect_preorder(w, s, node, t) ==
    IF ~w.heap[node].live THEN Fault(w)
    ELSE
    LET w0 == IF ~set_contains(w, t, w.heap[node].data)
              THEN set_erase(Visit(w, node), s, w.heap[node].data).w
              ELSE Visit(w, node)
        w1 == IF ~w0.heap[node].live THEN Fault(w0)
              ELSE IF w0.heap[node].left # NULL
              THEN ds__set_intersect_preorder(w0, s, w0.heap[node].left, t)
              ELSE w0
    IN  IF Stop(w1) THEN w1
        ELSE IF ~w1.heap[node].live THEN Fault(w1)
        ELSE IF w1.heap[node].right # NULL
        THEN ds__set_intersect_preorder(w1, s, w1.heap[node].right, t)
        ELSE w1

RECURSIVE ds__set_intersect(_, _, _, _)
ds__set_intersect(w, s, node, t) ==
    IF ~w.heap[node].live THEN Fault(w)
    ELSE
    LET w1 == IF w.heap[node].left # NULL
              THEN ds__set_intersect(Visit(w, node), s, w.heap[node].left, t)
              ELSE Visit(w, node)
        w2 == IF Stop(w1) THEN w1
              ELSE IF ~w1.heap[node].live THEN Fault(w1)
              ELSE IF w1.heap[node].right # NULL
              THEN ds__set_intersect(w1, s, w1.heap[node].right, t) ELSE w1
    IN  IF Stop(w2) THEN w2
        ELSE IF ~w2.heap[node].live THEN Fault(w2)
        ELSE IF ~set_find(w2, t, w2.heap[node].data).ok THEN Abort(w2)
        ELSE IF ~set_contains(w2, t, w2.heap[node].data)
        THEN set_erase(w2, s, w2.heap[node].data).w
        ELSE w2

set_intersect(w, s, t) ==
    IF w[s].root # NULL THEN ds__set_intersect(w, s, w[s].root, t) ELSE w

\* in-order over the nodes of set: left, erase(self, node->data), right
RECURSIVE ds__set_difference(_, _, _)
ds__set_difference(w, s, node) ==
    IF ~w.heap[node].live THEN Fault(w)
    ELSE
    LET w1 == IF w.heap[node].left # NULL
              THEN ds__set_difference(w, s, w.heap[node].left) ELSE w
        w2 == IF Stop(w1) THEN w1
              ELSE IF ~w1.heap[node].live THEN Fault(w1)
              ELSE set_erase(w1, s, w1.heap[node].data).w
    IN  IF Stop(w2) THEN w2
        ELSE IF ~w2.heap[node].live THEN Fault(w2)
        ELSE IF w2.heap[node].right # NULL
        THEN ds__set_difference(w2, s, w2.heap[node].right) ELSE w2

\* mutant of set_difference: only the value at the root of set is erased
set_difference_root_only(w, s, t) ==
    IF w[t].root # NULL
    THEN set_erase(w, s, w.heap[w[t].root].data).w
    ELSE w

set_difference(w, s, t) ==
    IF w[t].root # NULL THEN ds__set_difference(w, s, w[t].root) ELSE w

\* left, right = node->right, free(node), right
RECURSIVE ds__set_clear(_, _)
ds__set_clear(heap, node) ==
    LET h1 == IF heap[node].left # NULL
              THEN ds__set_clear(heap, heap[node].left) ELSE heap
        right == h1[node].right
        h2 == ds_free(h1, node)
    IN  IF right # NULL THEN ds__set_clear(h2, right) ELSE h2

set_clear(w, s) ==
    IF (w[s].root = NULL) # (w[s].count = 0) THEN Abort(w)
    ELSE [w EXCEPT ![s] = [count |-> 0, root |-> NULL],
                   !.heap = IF w[s].root # NULL
                            THEN ds__set_clear(@, w[s].root) ELSE @]

\* the values action is called with, in order
RECURSIVE ds__set_foreach(_, _)
ds__set_foreach(heap, node) ==
    (IF heap[node].left # NULL
     THEN ds__set_foreach(heap, heap[node].left) ELSE <<>>)
    \o <<heap[node].data>>
    \o (IF heap[node].right # NULL
        THEN ds__set_foreach(heap, heap[node].right) ELSE <<>>)

set_foreach(w, s) ==
    IF w[s].root # NULL THEN ds__set_foreach(w.heap, w[s].root) ELSE <<>>

(***************************************************************************)
(* The sets' client: any sequence of insert, erase, union, intersect,      *)
(* difference, copy and clear on the sets a and b; the set operations      *)
(* take two different sets, and copy assigns to a set that holds no node.  *)
(* setop records the last call: its name, the set it acted on (self), the  *)
(* other set, the value, the result and the count of self before it.  The  *)
(* list of visits is dropped when the call returns.                        *)
(***************************************************************************)
SetCall(op, s, t, data, w, ret) ==
    /\ sets' = [w EXCEPT !.visits = <<>>]
    /\ setop' = [op |-> op, self |-> s, set |-> t, data |-> data,
                 ret |-> ret, before |-> sets[s].count]
    /\ UNCHANGED <<mapVars, slabVars, signalVars, vectorVars, sharedVars, arenaVars>>

SetInit ==
    /\ sets = [heap |-> [p \in Addrs |-> FreeNode], a |-> set_new,
               b |-> set_new, abort |-> FALSE, uaf |-> FALSE,
               visits |-> <<>>]
    /\ setop = [op |-> "new", self |-> "a", set |-> "b", data |-> 0,
                ret |-> FALSE, before |-> 0]
    /\ map = 0
    /\ mop = 0
    /\ slab = 0
    /\ sop = 0
    /\ issued = <<>>
    /\ retired = {}
    /\ signal = 0
    /\ invoke = 0
    /\ vec = 0
    /\ vop = 0
    /\ shared = 0
    /\ shop = 0
    /\ arena = 0
    /\ aop = 0

SetInsert ==
    \E s \in Names, data \in Elems :
        LET r == set_insert(sets, s, data)
        IN  /\ ~Stop(sets)
            /\ SetCall("insert", s, s, data, r.w, r.ret)

SetErase ==
    \E s \in Names, data \in Elems :
        LET r == set_erase(sets, s, data)
        IN  /\ ~Stop(sets)
            /\ SetCall("erase", s, s, data, r.w, r.ret)

SetUnion ==
    \E s \in Names, t \in Names :
        /\ ~Stop(sets)
        /\ s # t
        /\ SetCall("union", s, t, 0, set_union(sets, s, t), FALSE)

SetIntersect ==
    \E s \in Names, t \in Names :
        /\ ~Stop(sets)
        /\ s # t
        /\ SetCall("intersect", s, t, 0, set_intersect(sets, s, t), FALSE)

SetDifference ==
    \E s \in Names, t \in Names :
        /\ ~Stop(sets)
        /\ s # t
        /\ SetCall("difference", s, t, 0, set_difference(sets, s, t), FALSE)

SetCopy ==
    \E s \in Names, t \in Names :
        /\ ~Stop(sets)
        /\ s # t
        /\ sets[s].root = NULL
        /\ SetCall("copy", s, t, 0, set_copy(sets, s, t), FALSE)

SetClear ==
    \E s \in Names :
        /\ ~Stop(sets)
        /\ SetCall("clear", s, s, 0, set_clear(sets, s), FALSE)

SetNext ==
    SetInsert \/ SetErase \/ SetUnion \/ SetIntersect \/ SetDifference
        \/ SetCopy \/ SetClear

SetSpec == SetInit /\ [][SetNext]_vars

(***************************************************************************)
(* A client that builds the two sets by insert and erase and asks whether  *)
(* one is a subset of the other, or of itself.  setop.data is or_equal.    *)
(***************************************************************************)
SetSubset ==
    \E s \in Names, t \in Names, or_equal \in {ds_false, ds_true} :
        /\ ~Stop(sets)
        /\ SetCall("subset", s, t, or_equal, sets,
                   set_subset(sets, s, t, or_equal))

SubsetNext == SetInsert \/ SetErase \/ SetSubset

SubsetSpec == SetInit /\ [][SubsetNext]_vars

(***************************************************************************)
(* A client that builds the two sets by insert and calls set_difference    *)
(* with the same set as both arguments.                                    *)
(***************************************************************************)
SetDifferenceSelf ==
    \E s \in Names :
        /\ ~Stop(sets)
        /\ SetCall("difference", s, s, 0, set_difference(sets, s, s), FALSE)

AliasNext == SetInsert \/ SetDifferenceSelf

AliasSpec == SetInit /\ [][AliasNext]_vars

(***************************************************************************)
(* The vector's client: any sequence of push, pop, insert, erase and       *)
(* resize, also with an index or a capacity that fails the assertions.     *)
(* vop records the last call, the vector before it, and how many elements  *)
(* the calls so far have added (ins) and removed (rem).  A failed          *)
(* assertion aborts: the vector stays as it was and nothing runs           *)
(* afterwards.                                                             *)
(***************************************************************************)
VectorCall(op, index, data, capacity, r, ins, rem) ==
    /\ vec' = IF r.ok THEN r.self ELSE vec
    /\ vop' = [op |-> op, index |-> index, data |-> data,
               capacity |-> capacity, aborted |-> ~r.ok, pre |-> vec,
               ins |-> IF r.ok THEN vop.ins + ins ELSE vop.ins,
               rem |-> IF r.ok THEN vop.rem + rem ELSE vop.rem]
    /\ UNCHANGED <<mapVars, slabVars, signalVars, setVars, sharedVars, arenaVars>>

VectorInit ==
    /\ \E capacity \in 1..MaxVectorCapacity : vec = vector_new(capacity)
    /\ vop = [op |-> "new", index |-> 0, data |-> FALSE, capacity |-> 0,
              aborted |-> FALSE, pre |-> vec, ins |-> 0, rem |-> 0]
    /\ map = 0
    /\ mop = 0
    /\ slab = 0
    /\ sop = 0
    /\ issued = <<>>
    /\ retired = {}
    /\ signal = 0
    /\ invoke = 0
    /\ sets = 0
    /\ setop = 0
    /\ shared = 0
    /\ shop = 0
    /\ arena = 0
    /\ aop = 0

VectorPush ==
    \E data \in Values :
        /\ ~vop.aborted
        /\ vop.ins < MaxVectorOps
        /\ VectorCall("push", vec.count, data, 0, vector_push(vec, data), 1, 0)

VectorPop ==
    /\ ~vop.aborted
    /\ VectorCall("pop", 0, FALSE, 0, vector_pop(vec), 0, 1)

VectorInsert ==
    \E index \in 0..(vec.count + 1), data \in Values :
        /\ ~vop.aborted
        /\ vop.ins < MaxVectorOps
        /\ VectorCall("insert", index, data, 0,
                      vector_insert(vec, index, data), 1, 0)

VectorErase ==
    \E index \in 0..vec.count :
        /\ ~vop.aborted
        /\ VectorCall("erase", index, FALSE, 0, vector_erase(vec, index), 0, 1)

VectorResize ==
    \E capacity \in 0..MaxVectorCapacity :
        /\ ~vop.aborted
        /\ VectorCall("resize", 0, FALSE, capacity,
                      vector_resize(vec, capacity), 0, 0)

VectorNext ==
    VectorPush \/ VectorPop \/ VectorInsert \/ VectorErase \/ VectorResize

VectorSpec == VectorInit /\ [][VectorNext]_vars

(***************************************************************************)
(* Shared and weak references (ds/ds_shared.h, ds_weak.h).  The heap holds *)
(* one control block [shared_count, weak_count, data] and the T it points  *)
(* to.  A world is [control_block, value, block_live, data_live, deleted,  *)
(* frees, uaf]: the block's fields, the T, whether the two allocations are *)
(* live, how often the deleter ran, how often the control block was        *)
(* passed to ds_free, and whether freed memory was read or freed again.    *)
(* A reference is the pointer it holds: ControlBlock, or NULL once it was  *)
(* deleted.  Every operation returns [w, ret, ok]; ok is FALSE when an     *)
(* assertion failed.                                                       *)
(***************************************************************************)
\* the addresses ds_malloc returns in shared_new
ControlBlock == 1
Data == 2

\* a failed ds_assert
Violated(w) == [w |-> w, ret |-> NULL, ok |-> FALSE]
\* a read of the control block after ds_free(control_block)
Dangling(w) == [w |-> [w EXCEPT !.uaf = TRUE], ret |-> NULL, ok |-> TRUE]

shared_new(data) ==
    [control_block |-> [shared_count |-> 1, weak_count |-> 0, data |-> Data],
     value |-> data, block_live |-> TRUE, data_live |-> TRUE,
     deleted |-> 0, frees |-> 0, uaf |-> FALSE]

shared_copy(w, shared_) ==
    IF shared_ = NULL THEN Violated(w)
    ELSE IF ~w.block_live THEN Dangling(w)
    ELSE IF w.control_block.shared_count = 0 \/ w.control_block.data = NULL
    THEN Violated(w)
    ELSE [w |-> [w EXCEPT !.control_block.shared_count = uint_inc(@)],
          ret |-> shared_, ok |-> TRUE]

\* mutant of shared_delete: the control block is freed with the data, whatever
\* the weak count
shared_delete_frees_block(w, self) ==
    IF self = NULL THEN Violated(w)
    ELSE IF ~w.block_live THEN Dangling(w)
    ELSE IF w.control_block.shared_count = 0 THEN Violated(w)
    ELSE LET count == w.control_block.shared_count - 1
             dec == [w EXCEPT !.control_block.shared_count = count]
         IN  IF count = 0
             THEN [w |-> [dec EXCEPT !.deleted = @ + 1,
                                     !.uaf = @ \/ ~w.data_live,
                                     !.data_live = FALSE,
                                     !.control_block.data = NULL,
                                     !.block_live = FALSE,
                                     !.frees = @ + 1],
                   ret |-> NULL, ok |-> TRUE]
             ELSE [w |-> dec, ret |-> NULL, ok |-> TRUE]

\* ret is the pointer left in *self
shared_delete(w, self) ==
    IF self = NULL THEN Violated(w)
    ELSE IF ~w.block_live THEN Dangling(w)
    ELSE IF w.control_block.shared_count = 0 THEN Violated(w)
    ELSE LET count == w.control_block.shared_count - 1
             dec == [w EXCEPT !.control_block.shared_count = count]
             \* deleter(data); ds_free(data); data = NULL
             gone == [dec EXCEPT !.deleted = @ + 1,
                                 !.uaf = @ \/ ~w.data_live,
                                 !.data_live = FALSE,
                                 !.control_block.data = NULL]
         IN  IF count = 0
             THEN IF w.control_block.weak_count = 0
                  THEN [w |-> [gone EXCEPT !.block_live = FALSE,
                                           !.frees = @ + 1],
                        ret |-> NULL, ok |-> TRUE]
                  ELSE [w |-> gone, ret |-> NULL, ok |-> TRUE]
             ELSE [w |-> dec, ret |-> NULL, ok |-> TRUE]

weak_new(w, shared_) ==
    IF shared_ = NULL THEN Violated(w)
    ELSE IF ~w.block_live THEN Dangling(w)
    ELSE IF w.control_block.shared_count = 0 \/ w.control_block.data = NULL
    THEN Violated(w)
    ELSE [w |-> [w EXCEPT !.control_block.weak_count = uint_inc(@)],
          ret |-> shared_, ok |-> TRUE]

weak_copy(w, weak) ==
    IF weak = NULL THEN Violated(w)
    ELSE IF ~w.block_live THEN Dangling(w)
    ELSE IF w.control_block.weak_count = 0 THEN Violated(w)
    ELSE [w |-> [w EXCEPT !.control_block.weak_count = uint_inc(@)],
          ret |-> weak, ok |-> TRUE]

weak_valid(w, self) ==
    IF self = NULL THEN Violated(w)
    ELSE IF ~w.block_live THEN Dangling(w)
    ELSE IF w.control_block.weak_count = 0 THEN Violated(w)
    ELSE IF (w.control_block.shared_count > 0) = (w.control_block.data = NULL)
    THEN Violated(w)
    ELSE [w |-> w,
          ret |-> IF w.control_block.shared_count > 0 THEN ds_true ELSE ds_false,
          ok |-> TRUE]

weak_upgrade(w, self) ==
    IF self = NULL THEN Violated(w)
    ELSE IF ~w.block_live THEN Dangling(w)
    ELSE IF \/ w.control_block.shared_count = 0
            \/ w.control_block.weak_count = 0
            \/ w.control_block.data = NULL
    THEN Violated(w)
    ELSE [w |-> [w EXCEPT !.control_block.shared_count = uint_inc(@)],
          ret |-> self, ok |-> TRUE]

\* ret is the pointer left in *self
weak_delete(w, self) ==
    IF self = NULL THEN Violated(w)
    ELSE IF ~w.block_live THEN Dangling(w)
    ELSE IF w.control_block.weak_count = 0 THEN Violated(w)
    ELSE LET count == w.control_block.weak_count - 1
             dec == [w EXCEPT !.control_block.weak_count = count]
         IN  IF count = 0 /\ w.control_block.shared_count = 0
             THEN IF w.control_block.data # NULL THEN Violated(dec)
                  ELSE [w |-> [dec EXCEPT !.block_live = FALSE,
                                          !.frees = @ + 1],
                        ret |-> NULL, ok |-> TRUE]
             ELSE [w |-> dec, ret |-> NULL, ok |-> TRUE]

(***************************************************************************)
(* The references' client.  shared is [w, shareds, weaks]: the world and   *)
(* how many shared and weak references the client holds that were not      *)
(* deleted.  It copies and deletes the references it holds, takes weak     *)
(* references from shared ones, asks weak_valid and upgrades, also when    *)
(* no shared reference is left (the assertion of weak_upgrade fails).      *)
(* shop records the last call and its result.  A failed assertion aborts:  *)
(* nothing runs afterwards.                                                *)
(***************************************************************************)
SharedCall(op, r, shareds, weaks) ==
    /\ shared' = IF r.ok
                 THEN [w |-> r.w, shareds |-> shared.shareds + shareds,
                       weaks |-> shared.weaks + weaks]
                 ELSE shared
    /\ shop' = [op |-> op, ret |-> r.ret, aborted |-> ~r.ok,
                before |-> shared.w.control_block.shared_count]
    /\ UNCHANGED <<mapVars, slabVars, signalVars, setVars, vectorVars,
                   arenaVars>>

SharedInit ==
    /\ \E data \in Values : shared = [w |-> shared_new(data),
                                      shareds |-> 1, weaks |-> 0]
    /\ shop = [op |-> "shared_new", ret |-> ControlBlock, aborted |-> FALSE,
               before |-> 0]
    /\ map = 0
    /\ mop = 0
    /\ slab = 0
    /\ sop = 0
    /\ issued = <<>>
    /\ retired = {}
    /\ signal = 0
    /\ invoke = 0
    /\ sets = 0
    /\ setop = 0
    /\ vec = 0
    /\ vop = 0
    /\ arena = 0
    /\ aop = 0

\* the client may go on: no assertion failed and no freed memory was used
Running == ~shop.aborted /\ ~shared.w.uaf

SharedCopy ==
    /\ Running
    /\ shared.shareds > 0
    /\ shared.shareds < MaxRefs
    /\ SharedCall("shared_copy", shared_copy(shared.w, ControlBlock), 1, 0)

SharedDelete ==
    /\ Running
    /\ shared.shareds > 0
    /\ SharedCall("shared_delete", shared_delete(shared.w, ControlBlock), -1, 0)

WeakNew ==
    /\ Running
    /\ shared.shareds > 0
    /\ shared.weaks < MaxRefs
    /\ SharedCall("weak_new", weak_new(shared.w, ControlBlock), 0, 1)

WeakCopy ==
    /\ Running
    /\ shared.weaks > 0
    /\ shared.weaks < MaxRefs
    /\ SharedCall("weak_copy", weak_copy(shared.w, ControlBlock), 0, 1)

WeakValid ==
    /\ Running
    /\ shared.weaks > 0
    /\ SharedCall("weak_valid", weak_valid(shared.w, ControlBlock), 0, 0)

WeakUpgrade ==
    /\ Running
    /\ shared.weaks > 0
    /\ shared.shareds < MaxRefs
    /\ SharedCall("weak_upgrade", weak_upgrade(shared.w, ControlBlock), 1, 0)

WeakDelete ==
    /\ Running
    /\ shared.weaks > 0
    /\ SharedCall("weak_delete", weak_delete(shared.w, ControlBlock), 0, -1)

SharedNext ==
    \/ SharedCopy \/ SharedDelete
    \/ WeakNew \/ WeakCopy \/ WeakValid \/ WeakUpgrade \/ WeakDelete

SharedSpec == SharedInit /\ [][SharedNext]_vars

(***************************************************************************)
(* A client that fills a vector of elements 0..MaxElem by push and calls   *)
(* vector_filter with any predicate on the elements.  vop records the      *)
(* last call, the vector before it, and for a filter its predicate, the    *)
(* returned total and the calls of the deleter.                            *)
(***************************************************************************)
Predicates == [Elems -> {ds_false, ds_true}]

FilterInit ==
    /\ \E capacity \in 1..MaxVectorCapacity : vec = vector_new(capacity)
    /\ vop = [op |-> "new", data |-> 0, predicate |-> <<>>, ret |-> 0,
              deleted |-> <<>>, aborted |-> FALSE, pre |-> vec]
    /\ map = 0
    /\ mop = 0
    /\ slab = 0
    /\ sop = 0
    /\ issued = <<>>
    /\ retired = {}
    /\ signal = 0
    /\ invoke = 0
    /\ sets = 0
    /\ setop = 0
    /\ shared = 0
    /\ shop = 0
    /\ arena = 0
    /\ aop = 0

FilterPush ==
    \E data \in Elems :
        LET r == vector_push(vec, data)
        IN  /\ ~vop.aborted
            /\ vec.count < MaxVectorCapacity
            /\ vec' = IF r.ok THEN r.self ELSE vec
            /\ vop' = [op |-> "push", data |-> data, predicate |-> <<>>,
                       ret |-> 0, deleted |-> <<>>, aborted |-> ~r.ok,
                       pre |-> vec]
            /\ UNCHANGED <<mapVars, slabVars, signalVars, setVars, sharedVars, arenaVars>>

VectorFilter ==
    \E predicate \in Predicates :
        LET r == vector_filter(vec, predicate)
        IN  /\ ~vop.aborted
            /\ vec' = IF r.ok THEN r.self ELSE vec
            /\ vop' = [op |-> "filter", data |-> 0, predicate |-> predicate,
                       ret |-> r.ret, deleted |-> r.deleted, aborted |-> ~r.ok,
                       pre |-> vec]
            /\ UNCHANGED <<mapVars, slabVars, signalVars, setVars, sharedVars, arenaVars>>

FilterNext == FilterPush \/ VectorFilter

FilterSpec == FilterInit /\ [][FilterNext]_vars

(***************************************************************************)
(* Block allocator (ds_arena.h).  Addresses are byte offsets from the      *)
(* buffer ds_malloc returned, so start is 0.  An arena is [start, end,     *)
(* free, mem, oob]: mem[a] is the block header [size, next] written at     *)
(* address a (NoBlock where none was written), and oob tells that a header *)
(* was written outside [start, end).  malloc and free return [self, ret,   *)
(* split, ok]: ret is the returned pointer, split the address of the       *)
(* header malloc created (NULL when it created none).                      *)
(***************************************************************************)
\* ds_DECLARE_ARENA_NAMED(arena, sizeof(void *))
alignment == 8
\* sizeof(ds__arena_block): a ds_size and a pointer
sizeof_block == 16

\* (size + (alignment - 1)) & ~(alignment - 1), alignment a power of two
ds_ARENA_ALIGN(size, align) == ((size + (align - 1)) \div align) * align

ds__arena_block_SIZE == ds_ARENA_ALIGN(sizeof_block, alignment)

\* the addresses a header can be written to, the bytes past the end included
HeaderAddrs ==
    {a \in 0..(ds_ARENA_ALIGN(MaxArenaSize, alignment) + 2 * ds__arena_block_SIZE) :
        a % alignment = 0}
NoBlock == [size |-> 0, next |-> NULL]

arena_new(size) ==
    LET total == ds_ARENA_ALIGN(size, alignment) + ds__arena_block_SIZE
    IN  [self |-> [start |-> 0, end |-> total, free |-> 0,
                   mem |-> [a \in HeaderAddrs |->
                               IF a = 0 THEN [size |-> total, next |-> NULL]
                               ELSE NoBlock],
                   oob |-> FALSE],
         ok |-> size >= ds__arena_block_SIZE + alignment]

\* the body of the if in arena_malloc: current is large enough; the header
\* of the rest is written at block.  previous is the block whose next field
\* points to current, NULL when self->free does
arena_split(self, previous, current, size) ==
    LET block == current + size + ds__arena_block_SIZE
        rest == [size |-> self.mem[current].size - size - ds__arena_block_SIZE,
                 next |-> self.mem[current].next]
        mem1 == [self.mem EXCEPT ![block] = rest]
        mem2 == IF previous = NULL THEN mem1
                ELSE [mem1 EXCEPT ![previous].next = block]
    IN  [self |-> [self EXCEPT
                       !.free = IF previous = NULL THEN block ELSE @,
                       !.mem = [mem2 EXCEPT ![current] =
                                   [size |-> size, next |-> NULL]],
                       !.oob = @ \/ block < self.start
                                 \/ block + ds__arena_block_SIZE > self.end],
         ret |-> current + ds__arena_block_SIZE, split |-> block, ok |-> TRUE]

\* the while loop of arena_malloc
RECURSIVE arena_malloc_loop(_, _, _, _)
arena_malloc_loop(self, previous, current, size) ==
    IF current = NULL
    THEN [self |-> self, ret |-> NULL, split |-> NULL, ok |-> TRUE]
    ELSE IF self.mem[current].size >= ds__arena_block_SIZE + size
    THEN arena_split(self, previous, current, size)
    ELSE arena_malloc_loop(self, current, self.mem[current].next, size)

arena_malloc(self, size) ==
    IF size = 0
    THEN [self |-> self, ret |-> NULL, split |-> NULL, ok |-> TRUE]
    ELSE arena_malloc_loop(self, NULL, self.free,
                           ds_ARENA_ALIGN(size, alignment))

\* the while loop of arena_free: the last free block below block, and the
\* first one not below it
RECURSIVE arena_free_loop(_, _, _, _)
arena_free_loop(self, block, previous, current) ==
    IF current # NULL /\ current < block
    THEN arena_free_loop(self, block, current, self.mem[current].next)
    ELSE [previous |-> previous, current |-> current]

arena_free(self, ptr) ==
    IF ptr = NULL
    THEN [self |-> self, ret |-> NULL, split |-> NULL, ok |-> TRUE]
    ELSE IF ~(ptr >= self.start /\ ptr < self.end)
    THEN [self |-> self, ret |-> NULL, split |-> NULL, ok |-> FALSE]
    ELSE
    LET block == ptr - ds__arena_block_SIZE
        at == arena_free_loop(self, block, NULL, self.free)
        previous == at.previous
        current == at.current
        \* block->next = current; previous->next = block or self->free = block
        mem1 == [self.mem EXCEPT ![block].next = current]
        mem2 == IF previous # NULL
                THEN [mem1 EXCEPT ![previous].next = block] ELSE mem1
        \* the block runs up to current: the two become one
        mem3 == IF /\ current # NULL
                   /\ block + mem2[block].size + ds__arena_block_SIZE = current
                THEN [mem2 EXCEPT ![block] =
                         [size |-> @.size + ds__arena_block_SIZE
                                          + mem2[current].size,
                          next |-> mem2[current].next]]
                ELSE mem2
        \* previous runs up to the block: the two become one
        mem4 == IF /\ previous # NULL
                   /\ previous + mem3[previous].size + ds__arena_block_SIZE
                          = block
                THEN [mem3 EXCEPT ![previous] =
                         [size |-> @.size + mem3[block].size
                                          + ds__arena_block_SIZE,
                          next |-> mem3[block].next]]
                ELSE mem3
    IN  [self |-> [self EXCEPT !.free = IF previous # NULL THEN @ ELSE block,
                               !.mem = mem4],
         ret |-> NULL, split |-> NULL, ok |-> TRUE]

(***************************************************************************)
(* The arena's client: it creates an arena of a size arena_new accepts,    *)
(* allocates blocks of any size and frees pointers arena_malloc gave it    *)
(* and it has not freed yet, or NULL.  aop records the last call, its      *)
(* result, the arena before it and the pointers the client holds.  A       *)
(* write outside the buffer ends the run.                                  *)
(***************************************************************************)
ArenaCall(op, size, ptr, r, held) ==
    /\ arena' = r.self
    /\ aop' = [op |-> op, size |-> size, ptr |-> ptr, ret |-> r.ret,
               split |-> r.split, aborted |-> ~r.ok, pre |-> arena,
               held |-> held]
    /\ UNCHANGED <<mapVars, slabVars, signalVars, setVars, vectorVars,
                   sharedVars>>

ArenaInit ==
    /\ \E size \in 1..MaxArenaSize :
           /\ arena_new(size).ok
           /\ arena = arena_new(size).self
           /\ aop = [op |-> "new", size |-> size, ptr |-> NULL, ret |-> NULL,
                     split |-> NULL, aborted |-> FALSE, pre |-> arena,
                     held |-> {}]
    /\ map = 0
    /\ mop = 0
    /\ slab = 0
    /\ sop = 0
    /\ issued = <<>>
    /\ retired = {}
    /\ signal = 0
    /\ invoke = 0
    /\ sets = 0
    /\ setop = 0
    /\ vec = 0
    /\ vop = 0
    /\ shared = 0
    /\ shop = 0

ArenaMalloc ==
    \E size \in 0..MaxArenaSize :
        LET r == arena_malloc(arena, size)
        IN  /\ ~aop.aborted
            /\ ~arena.oob
            /\ ArenaCall("malloc", size, NULL, r,
                         IF r.ret = NULL THEN aop.held
                         ELSE aop.held \cup {r.ret})

ArenaFree ==
    \E ptr \in aop.held \cup {NULL} :
        /\ ~aop.aborted
        /\ ~arena.oob
        /\ ArenaCall("free", 0, ptr, arena_free(arena, ptr), aop.held \ {ptr})

ArenaNext == ArenaMalloc \/ ArenaFree

ArenaSpec == ArenaInit /\ [][ArenaNext]_vars

(***************************************************************************)
(* Hash map properties.                                                    *)
(***************************************************************************)
\* the indices of the occupied buckets of a map
Occupied(m) ==
    {i \in 0..(m.buckets.capacity - 1) :
        m.buckets.array[i].state = ds_BUCKET_OCCUPIED}
\* the indices of the tombstones of a map
Tombstones(m) ==
    {i \in 0..(m.buckets.capacity - 1) :
        m.buckets.array[i].state = ds_BUCKET_SKIP}
\* the (key, value) pairs a map holds
Pairs(m) ==
    {<<m.buckets.array[i].key, m.buckets.array[i].value>> : i \in Occupied(m)}
\* whether some occupied bucket holds key
Present(m, key) == \E i \in Occupied(m) : m.buckets.array[i].key = key
\* how many probes lead from the home bucket of its key to bucket i
Distance(m, i) ==
    (i + m.buckets.capacity
       - (key_hasher(m.buckets.array[i].key) % m.buckets.capacity))
        % m.buckets.capacity
\* the buckets probed before bucket i is reached from the home of its key
PathTo(m, i) ==
    {probe(key_hasher(m.buckets.array[i].key) % m.buckets.capacity, j,
           m.buckets.capacity) : j \in 0..(Distance(m, i) - 1)}

C5_LoadFactor ==
    mop.op = "insert" =>
        ds_MAP_LOAD_FACTOR_DEN * map.count
            <= ds_MAP_LOAD_FACTOR_NUM * map.buckets.capacity

\* C5 witness: an insert that grew the table and filled it to exactly half.
C5_Witness ==
    /\ mop.op = "insert"
    /\ map.buckets.capacity > mop.pre.buckets.capacity
    /\ map.count = mop.pre.count + 1
    /\ ds_MAP_LOAD_FACTOR_DEN * map.count
           = ds_MAP_LOAD_FACTOR_NUM * map.buckets.capacity

Empties(m) ==
    {i \in 0..(m.buckets.capacity - 1) :
        m.buckets.array[i].state = ds_BUCKET_EMPTY}
\* the first tombstone the probe for key meets
EarliestTombstone(m, key) ==
    LET capacity == m.buckets.capacity
        hash == key_hasher(key) % capacity
        first == CHOOSE j \in 0..(capacity - 1) :
                     /\ probe(hash, j, capacity) \in Tombstones(m)
                     /\ \A k \in 0..(j - 1) :
                            probe(hash, k, capacity) \notin Tombstones(m)
    IN  probe(hash, first, capacity)
\* the probe of insert(key) runs through every bucket of m: no bucket is
\* empty and none holds the key
ProbeExhausts(m, key) ==
    /\ ~needs_rehash(m)
    /\ ~Present(m, key)
    /\ Empties(m) = {}

\* C31: when the probe of an insert of an absent key runs through all the
\* buckets without meeting an empty bucket or the key, and met a tombstone,
\* the entry is stored in the earliest tombstone on the probe path, the
\* capacity is unchanged and insert returns false.
C31_TombstoneReuse ==
    (mop.op = "insert" /\ ProbeExhausts(mop.pre, mop.key)
                       /\ Tombstones(mop.pre) # {}) =>
        /\ ~mop.aborted
        /\ mop.ret = FALSE
        /\ map.buckets.capacity = mop.pre.buckets.capacity
        /\ map.buckets.array[EarliestTombstone(mop.pre, mop.key)]
               = [key |-> mop.key, value |-> mop.value,
                  state |-> ds_BUCKET_OCCUPIED]

\* the capacity insert probes first: doubled when the load factor asks for it
FirstCapacity(m) ==
    IF needs_rehash(m) THEN ds_VECTOR_EXPANSION * m.buckets.capacity
    ELSE m.buckets.capacity

\* C32: in every reachable state an insert of any key terminates without a
\* failed assertion, and its retry loop grows the table at most once, and
\* only after a probe that ran through the whole table: the capacity
\* afterwards is the one probed first, or twice that when no bucket was empty.
C32_InsertTerminates ==
    \A key \in Keys, value \in Values :
        LET r == map_insert(map, key, value)
        IN  /\ r.ok
            /\ Present(r.self, key)
            /\ \/ r.self.buckets.capacity = FirstCapacity(map)
               \/ /\ r.self.buckets.capacity
                        = ds_VECTOR_EXPANSION * FirstCapacity(map)
                  /\ ProbeExhausts(map, key)

\* C32 witness: an insert probed a table without an empty bucket, grew it
\* once and stored the entry on the second probe.
C32_Witness ==
    /\ mop.op = "insert"
    /\ ~mop.aborted
    /\ ProbeExhausts(mop.pre, mop.key)
    /\ map.buckets.capacity = ds_VECTOR_EXPANSION * mop.pre.buckets.capacity
    /\ Present(map, mop.key)

\* C34: in every reachable state, tables without an empty bucket included,
\* find, contains and erase of a key that is not present examine at most
\* capacity buckets, pass the closing assertion, return NULL / false and
\* leave the count and every bucket as they were.
C34_AbsentKey ==
    \A key \in Keys :
        ~Present(map, key) =>
            LET f == map_find(map, key)
                e == map_erase(map, key)
            IN  /\ f.ok /\ f.ret = NULL /\ f.self = map
                /\ f.probes <= map.buckets.capacity
                /\ ~map_contains(map, key)
                /\ e.ok /\ e.ret = FALSE /\ e.self = map
                /\ e.probes <= map.buckets.capacity

\* C34 witness: an erase of an absent key examined every bucket of a table
\* that holds live entries and no empty bucket, and changed nothing.
C34_Witness ==
    /\ mop.op = "erase"
    /\ ~mop.aborted
    /\ ~Present(mop.pre, mop.key)
    /\ mop.pre.count > 0
    /\ Empties(mop.pre) = {}
    /\ map_erase(mop.pre, mop.key).probes = mop.pre.buckets.capacity
    /\ mop.ret = FALSE
    /\ map = mop.pre

\* C36: in every state count is the number of occupied buckets and is
\* strictly less than the capacity, also after an insert that landed in a
\* tombstone or rebuilt the table.
C36_Count ==
    /\ map.count = Cardinality(Occupied(map))
    /\ map.count < map.buckets.capacity
    /\ DOMAIN map.buckets.array = 0..(map.buckets.capacity - 1)

\* C36 witness: an insert stored its entry in a bucket that was a tombstone,
\* in a table that held other live entries.
C36_Witness ==
    /\ mop.op = "insert"
    /\ ~mop.aborted
    /\ mop.pre.count > 0
    /\ map.buckets.capacity = mop.pre.buckets.capacity
    /\ map.count = mop.pre.count + 1
    /\ \E i \in Tombstones(mop.pre) :
           /\ i \in Occupied(map)
           /\ map.buckets.array[i].key = mop.key

\* C29: a resize to any capacity that is at least count, the capacity equal
\* to count included, leaves the map with exactly that many buckets and the
\* same (key, value) pairs.
C29_Resize ==
    (mop.op = "resize" /\ mop.capacity >= mop.pre.count) =>
        /\ ~mop.aborted
        /\ map.buckets.capacity = mop.capacity
        /\ Pairs(map) = Pairs(mop.pre)

(***************************************************************************)
(* Slab properties.                                                        *)
(***************************************************************************)
\* every id value a client could hold
Ids == [index : 0..ds_UINT_MOD, age : 0..(ds_UINT_MOD - 1)]
\* the payload read through slab_get
DataAt(s, id) == s.buckets.array[slab_get(s, id).ret].data

\* C7: in every state, an id that was passed to return, or that was issued
\* before a clear, is not valid, whatever was borrowed, returned or cleared
\* since and also when its block is in use again.
C7_StaleInvalid ==
    \A id \in retired : ~slab_valid(slab, id)

\* C7 witness: the block of a retired id is live again under a newer id, and
\* the retired id is not valid.
C7_Witness ==
    \E id \in retired :
        /\ id.index < slab.buckets.count
        /\ slab.buckets.array[id.index].age # 0
        /\ slab.buckets.array[id.index].age # id.age
        /\ ~slab_valid(slab, id)

\* C8: a borrow that returns increments count by one, and right afterwards
\* the returned id is valid and slab_get reads the borrowed value through it.
C8_BorrowValid ==
    (sop.op = "borrow" /\ ~sop.aborted) =>
        /\ slab.count = sop.pre.count + 1
        /\ slab_valid(slab, sop.ret)
        /\ slab_get(slab, sop.ret).ok
        /\ DataAt(slab, sop.ret) = sop.data

\* C8 witness: a borrow took a free block below the storage length while
\* other blocks were live.
C8_Witness ==
    /\ sop.op = "borrow"
    /\ ~sop.aborted
    /\ sop.ret.index < sop.pre.buckets.count
    /\ sop.pre.count > 0
    /\ slab_valid(slab, sop.ret)
    /\ DataAt(slab, sop.ret) = sop.data

\* C9: the k-th id a slab issues has age k, so each issued id has an age
\* strictly greater than every id issued before it, whatever was returned or
\* cleared in between.
C9_AgesIncrease ==
    /\ \A k \in DOMAIN issued : issued[k].age = k
    /\ \A i, j \in DOMAIN issued :
           i < j => issued[i].age < issued[j].age

\* C9 witness: after a clear, a borrow handed out an index again that an
\* earlier id had, with a greater age.
C9_Witness ==
    /\ sop.op = "borrow"
    /\ ~sop.aborted
    /\ sop.pre.count = 0
    /\ Len(issued) >= 3
    /\ \E i \in DOMAIN issued :
           /\ i < Len(issued)
           /\ issued[i] \in retired
           /\ issued[i].index = issued[Len(issued)].index
           /\ issued[i].age < issued[Len(issued)].age

\* C10: a borrow, or a return of another live id, leaves every id that was
\* valid before valid, with the same value read through slab_get.
C10_Frame ==
    (sop.op \in {"borrow", "return"} /\ ~sop.aborted) =>
        \A id \in Ids :
            (slab_valid(sop.pre, id) /\ (sop.op = "return" => id # sop.id)) =>
                /\ slab_valid(slab, id)
                /\ DataAt(slab, id) = DataAt(sop.pre, id)

\* C10 witness: a live id was returned while another id, at a higher index,
\* was live and stayed valid.
C10_Witness ==
    /\ sop.op = "return"
    /\ ~sop.aborted
    /\ \E id \in Ids :
           /\ id.index > sop.id.index
           /\ slab_valid(sop.pre, id)
           /\ slab_valid(slab, id)
           /\ DataAt(slab, id) = TRUE

\* C11: in every state and for every id value, slab_valid answers true
\* exactly when the id's index is below the storage length, the block's age
\* is not 0 and the block's age equals the id's age; the count = 0 shortcut
\* never changes the answer.
C11_ValidIff ==
    \A id \in Ids :
        slab_valid(slab, id) <=>
            /\ id.index < slab.buckets.count
            /\ slab.buckets.array[id.index].age # 0
            /\ slab.buckets.array[id.index].age = id.age

\* C11 witness: the slab is empty after ids were issued and returned, its
\* storage is not, and an id that was valid is now refused by the shortcut.
C11_Witness ==
    /\ slab.count = 0
    /\ slab.buckets.count > 0
    /\ sop.op = "return"
    /\ ~sop.aborted
    /\ slab_valid(sop.pre, sop.id)
    /\ ~slab_valid(slab, sop.id)

\* C12: a return or a get with an id that is not valid (never issued,
\* already returned, or stale because its block was borrowed again) fails
\* its assertion and leaves the slab as it was; with a valid id neither
\* fails.  So a second return of the same id changes neither count nor the
\* block a newer id owns.
C12_InvalidAborts ==
    (sop.op \in {"return", "get"}) =>
        /\ sop.aborted <=> ~slab_valid(sop.pre, sop.id)
        /\ sop.aborted => slab = sop.pre
        /\ (sop.op = "return" /\ ~sop.aborted) =>
               /\ slab.count = sop.pre.count - 1
               /\ \A i \in DOMAIN slab.buckets.array :
                      i # sop.id.index =>
                          slab.buckets.array[i] = sop.pre.buckets.array[i]

\* C12 witness: an id was returned a second time while its block was live
\* under a newer id; the call failed and the slab is as before.
C12_Witness ==
    /\ sop.op = "return"
    /\ sop.aborted
    /\ sop.id \in retired
    /\ sop.id.index < slab.buckets.count
    /\ slab.buckets.array[sop.id.index].age \notin {0, sop.id.age}
    /\ slab = sop.pre
    /\ slab.count = sop.pre.count

\* the indices of the free blocks of a slab's storage
FreeSlots(s) == {i \in 0..(s.buckets.count - 1) : s.buckets.array[i].age = 0}
\* the lowest free index, or the storage length when no block is free
LowestFree(s) ==
    IF FreeSlots(s) = {} THEN s.buckets.count
    ELSE CHOOSE i \in FreeSlots(s) : \A j \in FreeSlots(s) : i <= j

\* C33: in every state next.index is the lowest index of a free block, or
\* the storage length when no block is free; a borrow puts the value at the
\* lowest free index of the slab before it and appends a block only when
\* none was free.
C33_Hint ==
    /\ slab.next.index = LowestFree(slab)
    /\ (sop.op = "borrow" /\ ~sop.aborted) =>
           /\ sop.ret.index = LowestFree(sop.pre)
           /\ slab.buckets.array[sop.ret.index].data = sop.data
           /\ slab.buckets.count =
                  (IF FreeSlots(sop.pre) = {} THEN sop.pre.buckets.count + 1
                   ELSE sop.pre.buckets.count)

\* C33 witness: a borrow reused a free block that had a live block below it
\* and a free block above it.
C33_Witness ==
    /\ sop.op = "borrow"
    /\ ~sop.aborted
    /\ sop.ret.index > 0
    /\ sop.ret.index < slab.next.index
    /\ slab.next.index < slab.buckets.count
    /\ slab.buckets.count = sop.pre.buckets.count

\* the positions in issued of the ids that are valid now
LiveHandles == {k \in DOMAIN issued : slab_valid(slab, issued[k])}

\* C37: in every state count is the number of blocks with a non-zero age,
\* no two handles that are valid have the same index, and a borrow writes
\* only to a block that was free or is new.
C37_Count ==
    /\ slab.count
           = Cardinality({i \in 0..(slab.buckets.count - 1) :
                             slab.buckets.array[i].age # 0})
    /\ \A k, l \in LiveHandles :
           k # l => issued[k].index # issued[l].index
    /\ sop.op = "borrow" =>
           \/ sop.ret.index = sop.pre.buckets.count
           \/ /\ sop.ret.index < sop.pre.buckets.count
              /\ sop.pre.buckets.array[sop.ret.index].age = 0
    /\ sop.op = "borrow" =>
           \A i \in 0..(sop.pre.buckets.count - 1) :
               sop.pre.buckets.array[i].age # 0 =>
                   slab.buckets.array[i] = sop.pre.buckets.array[i]

\* C37 witness: a borrow took a free block between two live blocks, whose
\* handles stay valid.
C37_Witness ==
    /\ sop.op = "borrow"
    /\ ~sop.aborted
    /\ sop.ret.index > 0
    /\ sop.ret.index + 1 < slab.buckets.count
    /\ sop.pre.buckets.array[sop.ret.index].age = 0
    /\ Cardinality(LiveHandles) >= 3
    /\ slab.count = 3

\* C38: ages are counted modulo ds_UINT_MOD.  No id that a borrow returned
\* has age 0 and no block it filled is left with age 0; the borrow that
\* takes next.age from ds_UINT_MOD - 1 round to 0 fails its closing
\* assertion, and no other borrow does.
C38_AgeWidth ==
    /\ \A k \in DOMAIN issued : issued[k].age # 0
    /\ \A k \in LiveHandles :
           slab.buckets.array[issued[k].index].age # 0
    /\ sop.op = "borrow" =>
           /\ sop.ret.age # 0
           /\ slab.buckets.array[sop.ret.index].age = sop.ret.age
           /\ sop.aborted = (sop.pre.next.age = ds_UINT_MOD - 1)
           /\ sop.aborted = (slab.next.age = 0)
    /\ ~sop.aborted => slab.next.age > 0

\* C38 witness: the borrow that wrapped next.age round to 0 failed its
\* assertion.
C38_Witness ==
    /\ sop.op = "borrow"
    /\ sop.aborted
    /\ sop.pre.next.age = ds_UINT_MOD - 1
    /\ slab.next.age = 0
    /\ Len(issued) = ds_UINT_MOD - 2

(***************************************************************************)
(* Signal properties.                                                      *)
(***************************************************************************)
\* how often x occurs in a sequence
Times(seq, x) == Cardinality({k \in DOMAIN seq : seq[k] = x})

\* C13: whatever the callbacks of a pass bind or unbind on the signal,
\* signal_invoke runs to completion: its closing assertion remaining == 0
\* never fails.
C13_InvokeCompletes == invoke.pc # "aborted"

\* C14: when a pass has completed, every binding that was bound when it
\* started and that no callback unbound was called exactly once, also when
\* callbacks bound new bindings during the pass.
C14_FanOut ==
    invoke.pc = "done" =>
        \A h \in invoke.atStart \ invoke.unbound :
            Times(invoke.called, h) = 1

\* C15: a binding a callback creates during a pass is not called in that
\* pass, also when it takes a block the loop has not reached yet.
C15_NewNotCalled ==
    invoke.pc \in {"loop", "done"} =>
        \A h \in invoke.bound : Times(invoke.called, h) = 0

(***************************************************************************)
(* Sorted set properties.                                                  *)
(***************************************************************************)
\* the addresses of the nodes reachable from node
RECURSIVE Reach(_, _)
Reach(heap, node) ==
    IF node = NULL THEN {}
    ELSE {node} \cup Reach(heap, heap[node].left)
                \cup Reach(heap, heap[node].right)
\* the values a set holds
Members(w, s) == {w.heap[p].data : p \in Reach(w.heap, w[s].root)}
\* the tree below node: its shape and values, without the addresses
RECURSIVE Tree(_, _)
Tree(heap, node) ==
    IF node = NULL THEN <<>>
    ELSE <<Tree(heap, heap[node].left), heap[node].data,
           Tree(heap, heap[node].right)>>
\* the other of the two sets
Other(s) == IF s = "a" THEN "b" ELSE "a"

\* C16: in every state reached by insert, erase, union, intersect,
\* difference, copy and clear, the values foreach passes to action are
\* strictly ascending under the comparer and no two of them are equal.
C16_Ordered ==
    \A s \in Names :
        LET seq == set_foreach(sets, s)
        IN  \A i, j \in DOMAIN seq :
                i < j => /\ x_y_comparer(seq[j], seq[i])
                         /\ ~x_y_equals(seq[i], seq[j])

\* C16 witness: an erase took the middle value out of a full set and foreach
\* visits the least and the greatest value, in this order.
C16_Witness ==
    /\ setop.op = "erase"
    /\ setop.ret
    /\ setop.before = MaxElem + 1
    /\ set_foreach(sets, setop.self) = <<0, MaxElem>>

\* C17: after insert(x), contains(x) is true and the set holds what it held
\* together with x.  When an equal value was present, insert returns true and
\* count, root and the tree are as before, the node found holding x; else it
\* returns false and count is one more.
C17_Insert ==
    [][setop'.op = "insert" =>
          LET s == setop'.self
              x == setop'.data
          IN  /\ set_contains(sets', s, x)
              /\ Members(sets', s) = Members(sets, s) \cup {x}
              /\ IF set_contains(sets, s, x)
                 THEN /\ setop'.ret = TRUE
                      /\ sets'[s] = sets[s]
                      /\ Tree(sets'.heap, sets'[s].root)
                             = Tree(sets.heap, sets[s].root)
                      /\ set_find(sets', s, x).ret = set_find(sets, s, x).ret
                 ELSE /\ setop'.ret = FALSE
                      /\ sets'[s].count = sets[s].count + 1]_vars

\* C17 witness: an insert found an equal value below the root of a set of
\* several nodes and returned true.
C17_Witness ==
    /\ setop.op = "insert"
    /\ setop.ret
    /\ sets[setop.self].count = setop.before
    /\ setop.before >= 2
    /\ sets.heap[sets[setop.self].root].data # setop.data
    /\ set_contains(sets, setop.self, setop.data)

C19_Count ==
    \A s \in Names :
        /\ sets[s].count = Cardinality(Reach(sets.heap, sets[s].root))
        /\ sets[s].count = Len(set_foreach(sets, s))
        /\ (sets[s].root = NULL) <=> (sets[s].count = 0)

\* C19 witness: an intersect erased all but one node of a full set.
C19_Witness ==
    /\ setop.op = "intersect"
    /\ setop.before = MaxElem + 1
    /\ sets[setop.self].count = 1
    /\ Len(set_foreach(sets, setop.self)) = 1
    /\ sets[setop.self].root # NULL

\* C20: after union(A, B), A holds exactly the values A held together with
\* the values of B, count(A) is the size of that union, and B is unchanged.
C20_Union ==
    [][setop'.op = "union" =>
          LET s == setop'.self
              t == setop'.set
              all == Members(sets, s) \cup Members(sets, t)
          IN  /\ Members(sets', s) = all
              /\ sets'[s].count = Cardinality(all)
              /\ sets'[t] = sets[t]
              /\ Tree(sets'.heap, sets'[t].root)
                     = Tree(sets.heap, sets[t].root)]_vars

\* C20 witness: a union added two values to a set of one value.
C20_Witness ==
    /\ setop.op = "union"
    /\ setop.before = 1
    /\ sets[setop.self].count = MaxElem + 1
    /\ sets[setop.set].count = 2

\* C21: after intersect(A, B), A holds exactly the values it held that B
\* holds too, and count(A) is their number; the walk of intersect enters
\* every node A had exactly once, enters no other node, and never reads a
\* node that erase has freed.
C21_Intersect ==
    [][setop'.op = "intersect" =>
          LET s == setop'.self
              t == setop'.set
              both == Members(sets, s) \cap Members(sets, t)
              walk == set_intersect(sets, s, t)
          IN  /\ Members(sets', s) = both
              /\ sets'[s].count = Cardinality(both)
              /\ sets' = [walk EXCEPT !.visits = <<>>]
              /\ ~walk.uaf
              /\ ~sets'.uaf
              /\ Len(walk.visits) = sets[s].count
              /\ \A p \in Reach(sets.heap, sets[s].root) :
                     Times(walk.visits, p) = 1]_vars

\* C21 witness: an intersect erased, during its walk, a value that lies
\* between the others from a full set, and kept the other nodes.
C21_Witness ==
    /\ setop.op = "intersect"
    /\ setop.before = MaxElem + 1
    /\ sets[setop.self].count = MaxElem
    /\ sets[setop.set].count = MaxElem
    /\ \E x \in Elems :
           /\ ~set_contains(sets, setop.self, x)
           /\ ~set_contains(sets, setop.set, x)
           /\ x > 0
           /\ x < MaxElem

\* C22: for two different sets, after difference(A, B), A holds exactly the
\* values it held that B does not hold, count(A) is their number, and B
\* (count, root and tree) is unchanged.
C22_Difference ==
    [][setop'.op = "difference" /\ setop'.self # setop'.set =>
          LET s == setop'.self
              t == setop'.set
              rest == Members(sets, s) \ Members(sets, t)
          IN  /\ Members(sets', s) = rest
              /\ sets'[s].count = Cardinality(rest)
              /\ sets'[t] = sets[t]
              /\ Tree(sets'.heap, sets'[t].root)
                     = Tree(sets.heap, sets[t].root)
              /\ ~Stop(sets')]_vars

\* C22 witness: a difference took the two values of the other set out of a
\* full set and left one.
C22_Witness ==
    /\ setop.op = "difference"
    /\ setop.self # setop.set
    /\ setop.before = MaxElem + 1
    /\ sets[setop.self].count = MaxElem - 1
    /\ sets[setop.set].count = MaxElem

\* C23: for all sets self and set, empty ones too, subset(self, set,
\* or_equal) returns true exactly when set holds every value of self and,
\* with or_equal false, count(self) differs from count(set).
C23_Subset ==
    setop.op = "subset" =>
        (setop.ret <=>
            /\ Members(sets, setop.self) \subseteq Members(sets, setop.set)
            /\ (setop.data = ds_false =>
                    sets[setop.self].count # sets[setop.set].count))

\* C24: copy(S) yields a set with the count of S and the sequence of values
\* foreach visits in S, and leaves S as it was; the two sets share no node in
\* any state, and an insert, erase or clear on one of them leaves the tree of
\* the other as it was.
C24_Copy ==
    [][/\ setop'.op = "copy" =>
              LET s == setop'.self
                  t == setop'.set
              IN  /\ sets'[s].count = sets[t].count
                  /\ set_foreach(sets', s) = set_foreach(sets, t)
                  /\ sets'[t] = sets[t]
                  /\ Tree(sets'.heap, sets'[t].root)
                         = Tree(sets.heap, sets[t].root)
       /\ setop'.op \in {"insert", "erase", "clear"} =>
              LET t == Other(setop'.self)
              IN  /\ sets'[t] = sets[t]
                  /\ Tree(sets'.heap, sets'[t].root)
                         = Tree(sets.heap, sets[t].root)
       /\ Reach(sets'.heap, sets'.a.root) \cap Reach(sets'.heap, sets'.b.root)
              = {}]_vars

\* C24 witness: a copy of a full set holds the same values in the same order
\* in a tree of another shape.
C24_Witness ==
    /\ setop.op = "copy"
    /\ sets[setop.self].count = MaxElem + 1
    /\ set_foreach(sets, setop.self) = set_foreach(sets, setop.set)
    /\ Tree(sets.heap, sets[setop.self].root)
           # Tree(sets.heap, sets[setop.set].root)

(***************************************************************************)
(* Vector properties.                                                      *)
(***************************************************************************)
\* the elements of a vector, in order
Elements(v) == [i \in 1..v.count |-> v.array[i - 1]]
\* a sequence without its k-th element
Without(seq, k) ==
    [i \in 1..(Len(seq) - 1) |-> IF i < k THEN seq[i] ELSE seq[i + 1]]

\* C25: in every state reached by push, pop, insert and erase calls whose
\* assertions hold (and resize calls), count is the number of elements added
\* minus the number removed, and count <= capacity.
C25_Length ==
    /\ vec.count = vop.ins - vop.rem
    /\ vec.count <= vec.capacity
    /\ DOMAIN vec.array = 0..(vec.count - 1)

\* C25 witness: after several inserts and removes an erase in the middle
\* left a vector that is not empty.
C25_Witness ==
    /\ vop.op = "erase"
    /\ ~vop.aborted
    /\ vop.ins >= 3
    /\ vop.rem >= 2
    /\ vop.index > 0
    /\ vop.index < vec.count
    /\ vec.count = vop.ins - vop.rem

\* C26: insert(i, v) passes its assertions exactly when i <= count; after
\* it element i is v, the elements formerly at i..count-1 are at i+1..count
\* in the same order, and the elements at 0..i-1 are unchanged, whether the
\* buffer grew or not.
C26_InsertAt ==
    vop.op = "insert" =>
        /\ vop.aborted <=> vop.index > vop.pre.count
        /\ ~vop.aborted =>
               /\ vec.count = vop.pre.count + 1
               /\ vec.array[vop.index] = vop.data
               /\ \A k \in 0..(vop.index - 1) :
                      vec.array[k] = vop.pre.array[k]
               /\ \A k \in vop.index..(vop.pre.count - 1) :
                      vec.array[k + 1] = vop.pre.array[k]

\* C26 witness: an insert in the middle of a full vector grew the buffer and
\* moved a tail of elements that differ from the new one.
C26_Witness ==
    /\ vop.op = "insert"
    /\ ~vop.aborted
    /\ vop.pre.count = vop.pre.capacity
    /\ vop.index > 0
    /\ vop.index < vop.pre.count
    /\ vec.capacity > vop.pre.capacity
    /\ vop.pre.array[vop.index] # vop.data
    /\ vec.array[vop.index + 1] = vop.pre.array[vop.index]

\* C27: a push or insert on a full vector doubles capacity, on a vector
\* that is not full it leaves capacity as it was; in both cases the elements
\* the vector held keep their values and their order.
C27_Growth ==
    (vop.op \in {"push", "insert"} /\ ~vop.aborted) =>
        /\ vec.capacity = IF vop.pre.count = vop.pre.capacity
                          THEN ds_VECTOR_EXPANSION * vop.pre.capacity
                          ELSE vop.pre.capacity
        /\ Without(Elements(vec), vop.index + 1) = Elements(vop.pre)

\* C27 witness: a push on a full vector of several elements doubled its
\* capacity.
C27_Witness ==
    /\ vop.op = "push"
    /\ ~vop.aborted
    /\ vop.pre.count = vop.pre.capacity
    /\ vop.pre.count >= 2
    /\ vec.capacity = ds_VECTOR_EXPANSION * vop.pre.capacity
    /\ Without(Elements(vec), vec.count) = Elements(vop.pre)

\* C28 as stated: resize(c) with 0 < c < count succeeds, sets count and
\* capacity to c and keeps the elements 0..c-1.
C28_Shrink ==
    (vop.op = "resize" /\ 0 < vop.capacity /\ vop.capacity < vop.pre.count) =>
        /\ ~vop.aborted
        /\ vec.count = vop.capacity
        /\ vec.capacity = vop.capacity
        /\ \A k \in 0..(vop.capacity - 1) : vec.array[k] = vop.pre.array[k]

\* C28 amended: with ds_VECTOR_TRUNC_ASSERT set, as ds_def.h ships it,
\* resize(c) with 0 < c < count fails its assertion and the vector is as
\* before; resize(c) with c >= count and c > 0 succeeds, sets capacity to c
\* and keeps count and every element.
C28_ShrinkAsserts ==
    vop.op = "resize" =>
        /\ vop.aborted <=> (vop.capacity = 0 \/ vop.capacity < vop.pre.count)
        /\ vop.aborted => vec = vop.pre
        /\ ~vop.aborted =>
               /\ vec.capacity = vop.capacity
               /\ vec.count = vop.pre.count
               /\ vec.array = vop.pre.array

\* C28 witness: a resize to a capacity above 0 and below count failed its
\* assertion and left the vector as it was.
C28_Witness ==
    /\ vop.op = "resize"
    /\ vop.aborted
    /\ vop.capacity > 0
    /\ vop.capacity < vop.pre.count
    /\ vec = vop.pre
    /\ vec.count >= 2

(***************************************************************************)
(* Shared and weak reference properties.                                   *)
(***************************************************************************)
\* C30: over every sequence of shared copy/delete and weak
\* new/copy/valid/upgrade/delete on references the client holds, the counts
\* in the control block are the numbers of references held; the deleter has
\* run, and the data is freed, exactly once from the call that takes
\* shared_count to 0 and never before; the control block is freed, once,
\* exactly when no shared and no weak reference is left, and is never read
\* afterwards; the only call that fails an assertion is weak_upgrade with no
\* shared reference left; and weak_valid returns true exactly when
\* shared_count > 0.
C30_Lifecycle ==
    LET w == shared.w
    IN  /\ ~w.uaf
        /\ w.block_live =>
               /\ w.control_block.shared_count = shared.shareds
               /\ w.control_block.weak_count = shared.weaks
               /\ (w.control_block.data = NULL) = (shared.shareds = 0)
        /\ w.deleted = (IF shared.shareds = 0 THEN 1 ELSE 0)
        /\ w.data_live = (shared.shareds > 0)
        /\ w.block_live = (shared.shareds > 0 \/ shared.weaks > 0)
        /\ w.frees = (IF w.block_live THEN 0 ELSE 1)
        /\ shop.aborted => (shop.op = "weak_upgrade" /\ shared.shareds = 0)
        /\ (shop.op = "shared_delete" /\ shop.before = 1) => w.deleted = 1
        /\ shop.op = "weak_valid" =>
               shop.ret = (IF w.control_block.shared_count > 0
                           THEN ds_true ELSE ds_false)

\* C30 witness: the last weak reference was deleted after the data had been
\* destroyed with weak references left, and that call freed the control block.
C30_Witness ==
    /\ shop.op = "weak_delete"
    /\ ~shop.aborted
    /\ shop.before = 0
    /\ ~shared.w.block_live
    /\ shared.w.deleted = 1
    /\ shared.w.frees = 1

\* C39: a difference of a set with itself leaves the set empty, with count
\* 0, and reads no node that erase has freed.
C39_SelfDifference ==
    (setop.op = "difference" /\ setop.self = setop.set) =>
        /\ ~sets.uaf
        /\ ~sets.abort
        /\ sets[setop.self].count = 0
        /\ sets[setop.self].root = NULL

(***************************************************************************)
(* Vector filter properties.                                               *)
(***************************************************************************)
\* the indices of a vector whose element the predicate accepts
Kept(v, predicate) == {i \in 0..(v.count - 1) : predicate[v.array[i]] # ds_false}
\* the elements at a set of indices of a vector, in index order
RECURSIVE Pick(_, _, _)
Pick(v, indices, i) ==
    IF i >= v.count THEN <<>>
    ELSE IF i \in indices THEN <<v.array[i]>> \o Pick(v, indices, i + 1)
    ELSE Pick(v, indices, i + 1)

\* C35: filter(p) leaves exactly the elements that satisfy p, in their
\* order; the deleter is called once on each rejected element, at its place
\* in the vector before, and on no kept element; count and the returned
\* value are the number kept; the capacity is unchanged.
C35_Filter ==
    vop.op = "filter" =>
        LET kept == Kept(vop.pre, vop.predicate)
            rejected == (0..(vop.pre.count - 1)) \ kept
        IN  /\ ~vop.aborted
            /\ Elements(vec) = Pick(vop.pre, kept, 0)
            /\ vec.count = Cardinality(kept)
            /\ vop.ret = Cardinality(kept)
            /\ vec.capacity = vop.pre.capacity
            /\ Len(vop.deleted) = Cardinality(rejected)
            /\ \A i \in rejected :
                   Cardinality({k \in DOMAIN vop.deleted :
                                   vop.deleted[k][1] = i}) = 1
            /\ \A k \in DOMAIN vop.deleted :
                   /\ vop.deleted[k][1] \in rejected
                   /\ vop.deleted[k][2] = vop.pre.array[vop.deleted[k][1]]

\* C35 witness: a filter kept two different elements that had rejected
\* elements before and between them.
C35_Witness ==
    /\ vop.op = "filter"
    /\ ~vop.aborted
    /\ vec.count = 2
    /\ vec.array[0] # vec.array[1]
    /\ vop.pre.count = 4
    /\ vop.predicate[vop.pre.array[0]] = ds_false
    /\ vop.predicate[vop.pre.array[2]] = ds_false
    /\ Len(vop.deleted) = 2

(***************************************************************************)
(* Arena properties.                                                       *)
(***************************************************************************)
\* C40: every block header arena_malloc creates when it splits a free block
\* lies inside the buffer [start, end), also when the request takes all of
\* the last free block, or all but less than a header.
C40_Bounds ==
    /\ ~arena.oob
    /\ (aop.op = "malloc" /\ aop.split # NULL) =>
           /\ aop.split >= arena.start
           /\ aop.split + ds__arena_block_SIZE <= arena.end

=============================================================================
